---- MODULE Spec2Model ----
(***************************************************************************)
(* A model of the couchbase kv_engine HashTable                            *)
(* (engines/ep/src/hash_table.cc): a chained hash index of StoredValues    *)
(* guarded by striped mutexes, with statistics kept by a prologue/epilogue *)
(* protocol, online resize, pause-resumable visitation and eviction.       *)
(*                                                                         *)
(* Spec      : the HashTable's operations, each run to completion under    *)
(*             the locks it takes (one action per public operation).       *)
(* SpecConc  : threads stepping through pauseResumeVisit, visitDepth,      *)
(*             resize(size_t) and set, one mutex operation at a time.      *)
(*                                                                         *)
(* StoredValue fields that no modelled branch of hash_table.cc reads       *)
(* (flags, exptime, lock_time, datatype, delete source, newCacheItem, NRU) *)
(* are left out of the record.                                             *)
(***************************************************************************)
EXTENDS Integers, Sequences, FiniteSets, TLC

(***************************************************************************)
(* Bounds of the model.                                                    *)
(***************************************************************************)
NumKeys == 2          \* distinct document keys
MaxVer == 2           \* item versions (value, cas and rev_seqno of an item)
MaxOps == 3           \* operations per behaviour of Spec
NumLocks == 2         \* stripe mutexes (constructor argument `locks`)
MaxChain == 3         \* entries linked in the whole table
MaxWrites == 2        \* set calls of the writer thread in SpecConc
MaxResizes == 2       \* resizes that take effect in SpecConc
MaxDepthVisits == 1   \* visitDepth calls in SpecConc
MaxClears == 1        \* clear calls of the clearer thread in SpecTeardown
MaxNi == 150          \* in-memory items resize() is asked to size for in SpecSize
MaxPrime == 7         \* entries of prime_size_table used as sizes in SpecSize
MaxRnd == 7           \* largest random number handed to getRandomKey
MaxSamples == 1       \* getRandomKey calls of the sampler thread in SpecRandom
MaxCurr == 8          \* largest slot index the sampler's loop is followed to

Keys == 1..NumKeys
Vers == 1..MaxVer

\* hash_table.cc:31 (the table ends with the sentinel -1)
prime_size_table ==
    <<3, 7, 13, 23, 47, 97, 193, 383, 769, 1531, 3079, 6143, 12289, 24571,
      49157, 98299, 196613, 393209, 786433, 1572869, 3145721, 6291449,
      12582917, 25165813, 50331653, 100663291, 201326611, 402653189,
      805306357, 1610612741, -1>>

\* std::numeric_limits<int>::max()
INT_MAX == 2147483647

\* Constructor argument initialSize: the first prime of the table.
initialSize == prime_size_table[1]

\* Table sizes the resizer is asked for in the model.
Sizes == {prime_size_table[1], prime_size_table[2]}

(***************************************************************************)
(* Keys, items and stored values.                                          *)
(***************************************************************************)
\* DocKey::hash(): a stable hash of the key. Keys 1 and 2 collide in a
\* table of 3 buckets and are apart in a table of 7.
Hash(k) == 3 * k - 1

\* DocKey::getCollectionID().isSystem(): even keys are system-collection keys.
isSystem(k) == k % 2 = 0

Pending == "Pending"
PreparedMaybeVisible == "PreparedMaybeVisible"
CommittedViaMutation == "CommittedViaMutation"
CommittedViaPrepare == "CommittedViaPrepare"
CommittedState ==
    {CommittedViaMutation, CommittedViaPrepare, Pending, PreparedMaybeVisible}

NotTemp == "no"
TempInit == "TempInit"
TempDeleted == "TempDeleted"
TempNonExistent == "TempNonExistent"

\* Item: the record handed to the HashTable by its callers.
Item(k, ver, cs, dl, tmp) ==
    [key |-> k, value |-> ver, cas |-> ver, revSeqno |-> ver,
     committed |-> cs, deleted |-> dl, temp |-> tmp]

\* Items the front end stores with set: a mutation, a deletion or the prepare
\* of a synchronous write.
SetItems ==
    {Item(k, ver, CommittedViaMutation, dl, NotTemp) :
         k \in Keys, ver \in Vers, dl \in BOOLEAN}
    \cup {Item(k, ver, Pending, FALSE, NotTemp) : k \in Keys, ver \in Vers}

\* Items warmup loads from disk: live documents, and prepares (of a write or
\* of a delete), which are loaded as PreparedMaybeVisible.
WarmupItems ==
    {Item(k, ver, cs, FALSE, NotTemp) :
         k \in Keys, ver \in Vers,
         cs \in {CommittedViaMutation, CommittedViaPrepare,
                 PreparedMaybeVisible}}
    \cup {Item(k, ver, PreparedMaybeVisible, TRUE, NotTemp) :
              k \in Keys, ver \in Vers}

\* Items a background fetch brings back from disk: committed documents,
\* alive or deleted.
FetchedItems ==
    {Item(k, ver, CommittedViaMutation, dl, NotTemp) :
         k \in Keys, ver \in Vers, dl \in BOOLEAN}

\* StoredValue::isPending()
isPending(sv) == sv.committed \in {Pending, PreparedMaybeVisible}

\* Item::isPending() / Item::isCommitted()
itmIsPending(itm) == itm.committed \in {Pending, PreparedMaybeVisible}
itmIsCommitted(itm) == ~itmIsPending(itm)

\* StoredValue::isTempItem()
isTempItem(sv) == sv.temp # NotTemp

\* StoredValue::hasKey()
hasKey(sv, k) == sv.key = k

\* StoredValue::valuelen(): a compressed buffer is shorter than the value.
valuelen(sv) == IF sv.value = 0 THEN 0 ELSE IF sv.comp THEN 1 ELSE 2

\* StoredValue::metaDataSize()
metaDataSize(sv) == 1

\* StoredValue::size()
svSize(sv) == metaDataSize(sv) + valuelen(sv)

\* StoredValueFactory::operator()(itm, next): a new StoredValue is dirty and
\* carries the item's fields. A temporary item has CAS 0 and no value: it is
\* not resident (unlocked_restoreValue, which refuses a resident entry,
\* expects temp items at hash_table.cc:1022).
NewStoredValue(itm) ==
    [key |-> itm.key,
     value |-> IF itm.temp = NotTemp THEN itm.value ELSE 0,
     cas |-> IF itm.temp = NotTemp THEN itm.cas ELSE 0,
     revSeqno |-> itm.revSeqno, committed |-> itm.committed,
     deleted |-> itm.deleted, resident |-> itm.temp = NotTemp,
     temp |-> itm.temp, dirty |-> TRUE, comp |-> FALSE, freq |-> 0]

\* StoredValue::setValue(itm): "will mark v as undeleted if required".
setValue(sv, itm) ==
    [sv EXCEPT !.value = itm.value, !.cas = itm.cas,
               !.revSeqno = itm.revSeqno, !.committed = itm.committed,
               !.deleted = itm.deleted, !.resident = TRUE, !.temp = NotTemp,
               !.dirty = TRUE, !.comp = FALSE]

\* StoredValue::markDeleted(source): a tombstone that keeps its body.
markDeleted(sv) == [sv EXCEPT !.deleted = TRUE, !.dirty = TRUE]

\* StoredValue::del(source): clears the value buffer and marks deleted.
del(sv) == [sv EXCEPT !.value = 0, !.deleted = TRUE, !.dirty = TRUE]

\* StoredValue::ejectValue() / markNotResident()
markNotResident(sv) == [sv EXCEPT !.value = 0, !.resident = FALSE]

\* Item::getDataType(): whether the item's value is a compressed buffer. The
\* items of the front end are raw; only an item read back for an entry whose
\* value was compressed carries the mark.
itmCompressed(itm) == "comp" \in DOMAIN itm /\ itm.comp

\* StoredValue::restoreValue(itm): a temp-initial or temp-deleted entry takes
\* the item's metadata and stops being temporary; the entry takes the item's
\* value and datatype.
restoreValue(sv, itm) ==
    LET m == IF sv.temp \in {TempInit, TempDeleted}
             THEN [sv EXCEPT !.cas = itm.cas, !.revSeqno = itm.revSeqno,
                             !.temp = NotTemp]
             ELSE sv
    IN  [m EXCEPT !.deleted = itm.deleted, !.value = itm.value,
                  !.resident = TRUE, !.comp = itmCompressed(itm)]

\* StoredValue::restoreMeta(itm)
restoreMeta(sv, itm) ==
    [sv EXCEPT !.cas = itm.cas, !.revSeqno = itm.revSeqno,
               !.temp = IF itm.deleted THEN TempDeleted ELSE NotTemp]

\* StoredValue::storeCompressedBuffer(buf)
storeCompressedBuffer(sv) == [sv EXCEPT !.comp = TRUE]

\* StoredValue::eligibleForEviction(policy): a pending, a dirty or a deleted
\* entry is never evicted; value eviction needs a resident entry.
eligibleForEviction(sv, policy) ==
    IF isPending(sv) THEN FALSE
    ELSE IF policy = "Value" THEN sv.resident /\ ~sv.dirty /\ ~sv.deleted
    ELSE ~sv.dirty /\ ~sv.deleted

(***************************************************************************)
(* The state of one HashTable (and, for SpecConc, of the threads using it). *)
(***************************************************************************)
VARIABLES
    values,              \* table_type values: bucket index -> chain (head first)
    size,                \* std::atomic<size_t> size
    activeState,         \* bool activeState
    visitors,            \* std::atomic<size_t> visitors
    valueStats,          \* HashTable::Statistics
    stats,               \* EPStats counters the HashTable updates
    numEjects,           \* size_t numEjects
    numResizes,          \* size_t numResizes
    maxDeletedRevSeqno,  \* uint64_t maxDeletedRevSeqno
    lastOp,              \* the operation that ran last, its arguments, its result
    nOps,                \* operations run so far
    mutexes,             \* stripe mutex -> holder (0: free)
    pc,                  \* thread -> position in its function
    loc                  \* thread -> its local variables

htVars == <<values, size, activeState, visitors, valueStats, stats, numEjects,
            numResizes, maxDeletedRevSeqno>>
vars == <<values, size, activeState, visitors, valueStats, stats, numEjects,
          numResizes, maxDeletedRevSeqno, lastOp, nOps, mutexes, pc, loc>>

\* The HashTable object as one value, so that a member function is an
\* operator from HashTable to HashTable.
HT == [values |-> values, size |-> size, activeState |-> activeState,
       visitors |-> visitors, valueStats |-> valueStats, stats |-> stats,
       numEjects |-> numEjects, numResizes |-> numResizes,
       maxDeletedRevSeqno |-> maxDeletedRevSeqno]

\* table_type(n): a vector of n empty chains
EmptyTable(n) == [b \in 0..(n - 1) |-> <<>>]

\* HashTable::memorySize(): the bucket vector and the mutex array
memorySize(h) == h.size + NumLocks

\* HashTable::Statistics after construction
ZeroStatistics ==
    [numItems |-> 0, numTempItems |-> 0, numNonResidentItems |-> 0,
     numDeletedItems |-> 0, numPreparedSyncWrites |-> 0, numSystemItems |-> 0,
     memSize |-> 0, cacheSize |-> 0, metaDataMemory |-> 0]

\* HashTable::HashTable()
NewHashTable ==
    [values |-> EmptyTable(initialSize), size |-> initialSize,
     activeState |-> TRUE, visitors |-> 0, valueStats |-> ZeroStatistics,
     stats |-> [numValueEjects |-> 0, numFailedEjects |-> 0,
                currentSize |-> 0, memOverhead |-> 0],
     numEjects |-> 0, numResizes |-> 0, maxDeletedRevSeqno |-> 0]

\* HashTable::getBucketForHash(h)
getBucketForHash(h, hash) == hash % h.size

\* All entries linked in the table, as (bucket, index) pairs.
Entries(h) == {<<b, i>> \in (DOMAIN h.values) \X (1..MaxChain + 2) :
                   i <= Len(h.values[b])}

NumLinked(h) == Cardinality(Entries(h))

RemoveAt(chain, i) == SubSeq(chain, 1, i - 1) \o SubSeq(chain, i + 1, Len(chain))

\* hashChainRemoveFirst(chain, pred): index of the first entry matching, or 0
FirstIdx(S) == IF S = {} THEN 0 ELSE CHOOSE i \in S : \A j \in S : i <= j

(***************************************************************************)
(* Statistics: prologue / epilogue                                          *)
(***************************************************************************)
\* StoredValueProperties(nullptr)
NullProperties ==
    [isValid |-> FALSE, size |-> 0, metaDataSize |-> 0, isResident |-> FALSE,
     isDeleted |-> FALSE, isTempItem |-> FALSE, isSystemItem |-> FALSE,
     isPreparedSyncWrite |-> FALSE]

\* StoredValueProperties(sv) / Statistics::prologue(sv)
prologue(sv) ==
    [isValid |-> TRUE, size |-> svSize(sv), metaDataSize |-> metaDataSize(sv),
     isResident |-> sv.resident, isDeleted |-> sv.deleted,
     isTempItem |-> isTempItem(sv), isSystemItem |-> isSystem(sv.key),
     isPreparedSyncWrite |-> isPending(sv)]

B2N(b) == IF b THEN 1 ELSE 0

epilogueStatistics(st, pre, post) ==
    LET preNonResident == pre.isValid /\ ~pre.isResident /\ ~pre.isDeleted
                              /\ ~pre.isTempItem
        postNonResident == post.isValid /\ ~post.isResident /\ ~post.isDeleted
                              /\ ~post.isTempItem
        preNonTemp == pre.isValid /\ ~pre.isTempItem
        postNonTemp == post.isValid /\ ~post.isTempItem
        prePrepared == pre.isValid /\ pre.isPreparedSyncWrite
        postPrepared == post.isValid /\ post.isPreparedSyncWrite
        preDeleted == pre.isDeleted /\ ~pre.isSystemItem
                          /\ ~pre.isPreparedSyncWrite
        postDeleted == post.isDeleted /\ ~post.isSystemItem
                          /\ ~post.isPreparedSyncWrite
    IN  [numItems |-> st.numItems + B2N(postNonTemp) - B2N(preNonTemp),
         numTempItems |->
             st.numTempItems + B2N(post.isTempItem) - B2N(pre.isTempItem),
         numNonResidentItems |->
             st.numNonResidentItems + B2N(postNonResident)
                 - B2N(preNonResident),
         numDeletedItems |->
             st.numDeletedItems + B2N(postDeleted) - B2N(preDeleted),
         numPreparedSyncWrites |->
             st.numPreparedSyncWrites + B2N(postPrepared) - B2N(prePrepared),
         numSystemItems |->
             st.numSystemItems + B2N(post.isSystemItem)
                 - B2N(pre.isSystemItem),
         memSize |-> st.memSize + post.size - pre.size,
         cacheSize |-> st.cacheSize + post.size - pre.size,
         metaDataMemory |->
             st.metaDataMemory + post.metaDataSize - pre.metaDataSize]

\* Statistics::epilogue(pre, v), with post = StoredValueProperties(v)
epilogue(h, pre, post) ==
    [h EXCEPT !.valueStats = epilogueStatistics(h.valueStats, pre, post),
              !.stats.currentSize = @ + post.metaDataSize - pre.metaDataSize]

\* Statistics::reset() that forgets memSize
StatisticsReset_keepsMemSize(st) ==
    [st EXCEPT !.numItems = 0, !.numTempItems = 0, !.numNonResidentItems = 0,
               !.cacheSize = 0]

\* Statistics::reset()
StatisticsReset(st) ==
    [st EXCEPT !.numItems = 0, !.numTempItems = 0, !.numNonResidentItems = 0,
               !.memSize = 0, !.cacheSize = 0]

(***************************************************************************)
(* Member functions of HashTable, as operators on the HashTable value h.   *)
(* An entry is named by its bucket b and its index i in the chain (1 is    *)
(* the head); the result carries the new HashTable, the status returned or *)
(* the exception thrown, and the index of the entry returned (0: nullptr). *)
(***************************************************************************)
Result(h, status, sv) == [h |-> h, status |-> status, sv |-> sv]

Threw(r) == r.status \in {"logic_error", "invalid_argument", "ExpectsFailed"}

\* ProbabilisticCounter::generateValue(counter) as used by
\* HashTable::updateFreqCounter: the counter stays or grows by one (inc is
\* the outcome of the random draw) and saturates at the uint8_t maximum.
updateFreqCounter(sv, inc) ==
    [sv EXCEPT !.freq = IF @ + inc > 255 THEN 255 ELSE @ + inc]

\* findInner without the check of the active flag
findInner_ignoresActive(h, k) ==
    LET b == getBucketForHash(h, Hash(k))
        chain == h.values[b]
        P == {i \in 1..Len(chain) : hasKey(chain[i], k) /\ isPending(chain[i])}
        C == {i \in 1..Len(chain) : hasKey(chain[i], k) /\ ~isPending(chain[i])}
    IN  [status |-> IF Cardinality(P) > 1 \/ Cardinality(C) > 1
                    THEN "ExpectsFailed"
                    ELSE "ok",
         bucket |-> b, committedSV |-> FirstIdx(C), pendingSV |-> FirstIdx(P)]

\* HashTable::findInner(key)
findInner(h, k) ==
    LET b == getBucketForHash(h, Hash(k))
        chain == h.values[b]
        P == {i \in 1..Len(chain) : hasKey(chain[i], k) /\ isPending(chain[i])}
        C == {i \in 1..Len(chain) : hasKey(chain[i], k) /\ ~isPending(chain[i])}
    IN  [status |-> IF ~h.activeState THEN "logic_error"
                    ELSE IF Cardinality(P) > 1 \/ Cardinality(C) > 1
                         THEN "ExpectsFailed"
                    ELSE "ok",
         bucket |-> b, committedSV |-> FirstIdx(C), pendingSV |-> FirstIdx(P)]

\* findForWrite that applies wantsDeleted to a prepare as well
findForWrite_hidesDeletedPrepare(h, k, wantsDeleted) ==
    LET result == findInner(h, k)
        sv == IF result.pendingSV # 0 THEN result.pendingSV
              ELSE result.committedSV
        chain == h.values[result.bucket]
    IN  [status |-> result.status, bucket |-> result.bucket,
         storedValue |->
             IF result.status # "ok" THEN 0
             ELSE IF sv = 0 THEN 0
             ELSE IF chain[sv].deleted /\ ~wantsDeleted THEN 0
             ELSE sv]

\* HashTable::findForWrite(key, wantsDeleted)
findForWrite(h, k, wantsDeleted) ==
    LET result == findInner(h, k)
        sv == IF result.pendingSV # 0 THEN result.pendingSV
              ELSE result.committedSV
        chain == h.values[result.bucket]
    IN  [status |-> result.status, bucket |-> result.bucket,
         storedValue |->
             IF result.status # "ok" THEN 0
             ELSE IF sv = 0 THEN 0
             ELSE IF result.pendingSV # 0 THEN sv
             ELSE IF chain[sv].deleted /\ ~wantsDeleted THEN 0
             ELSE sv]

\* findForRead that does not look at the pending entry
findForRead_ignoresMaybeVisible(h, k, trackReference, wantsDeleted, inc) ==
    LET result == findInner(h, k)
        b == result.bucket
        chain == h.values[b]
        sv == result.committedSV
    IN  IF result.status # "ok" THEN Result(h, result.status, 0)
        ELSE IF sv = 0 THEN Result(h, "ok", 0)
        ELSE IF chain[sv].deleted
             THEN Result(h, "ok", IF wantsDeleted THEN sv ELSE 0)
        ELSE IF trackReference
             THEN Result([h EXCEPT !.values[b][sv] = updateFreqCounter(@, inc)],
                         "ok", sv)
        ELSE Result(h, "ok", sv)

\* findForRead that counts the reference before it looks at the deleted flag
findForRead_countsDeleted(h, k, trackReference, wantsDeleted, inc) ==
    LET result == findInner(h, k)
        b == result.bucket
        chain == h.values[b]
        sv == result.committedSV
        counted == [h EXCEPT !.values[b][sv] = updateFreqCounter(@, inc)]
    IN  IF result.status # "ok" THEN Result(h, result.status, 0)
        ELSE IF result.pendingSV # 0
                /\ chain[result.pendingSV].committed = PreparedMaybeVisible
             THEN Result(h, "ok", result.pendingSV)
        ELSE IF sv = 0 THEN Result(h, "ok", 0)
        ELSE IF chain[sv].deleted
             THEN Result(IF trackReference THEN counted ELSE h, "ok",
                         IF wantsDeleted THEN sv ELSE 0)
        ELSE Result(IF trackReference THEN counted ELSE h, "ok", sv)

\* HashTable::findForRead(key, trackReference, wantsDeleted): the entry
\* returned (0: nullptr) and the table, whose entry's frequency counter is
\* updated when a live committed entry is returned and the reference is
\* tracked.
findForRead(h, k, trackReference, wantsDeleted, inc) ==
    LET result == findInner(h, k)
        b == result.bucket
        chain == h.values[b]
        sv == result.committedSV
    IN  IF result.status # "ok" THEN Result(h, result.status, 0)
        ELSE IF result.pendingSV # 0
                /\ chain[result.pendingSV].committed = PreparedMaybeVisible
             THEN Result(h, "ok", result.pendingSV)
        ELSE IF sv = 0 THEN Result(h, "ok", 0)
        ELSE IF chain[sv].deleted
             THEN Result(h, "ok", IF wantsDeleted THEN sv ELSE 0)
        ELSE IF trackReference
             THEN Result([h EXCEPT !.values[b][sv] = updateFreqCounter(@, inc)],
                         "ok", sv)
        ELSE Result(h, "ok", sv)

\* HashTable::findForCommit(key): the prepare and the committed entry
findForCommit(h, k) ==
    LET result == findInner(h, k)
    IN  [status |-> result.status, bucket |-> result.bucket,
         pending |-> IF result.status = "ok" THEN result.pendingSV ELSE 0,
         committed |-> IF result.status = "ok" THEN result.committedSV ELSE 0]

\* HashTable::findOnlyCommitted(key)
findOnlyCommitted(h, k) ==
    LET result == findInner(h, k)
    IN  Result(h, result.status,
               IF result.status = "ok" THEN result.committedSV ELSE 0)

\* HashTable::findOnlyPrepared(key)
findOnlyPrepared(h, k) ==
    LET result == findInner(h, k)
    IN  Result(h, result.status,
               IF result.status = "ok" THEN result.pendingSV ELSE 0)

\* HashTable::unlocked_addNewStoredValue(hbl, itm)
unlocked_addNewStoredValue(h, b, itm) ==
    IF ~h.activeState THEN Result(h, "invalid_argument", 0)
    ELSE LET v == NewStoredValue(itm)
             h1 == epilogue(h, NullProperties, prologue(v))
         IN  Result([h1 EXCEPT !.values[b] = <<v>> \o @], "ok", 1)

\* unlocked_updateStoredValue that stores a Pending item over the committed
\* entry instead of linking a new entry for it
unlocked_updateStoredValue_inPlace(h, b, i, itm, inc) ==
    IF ~h.activeState THEN Result(h, "logic_error", 0)
    ELSE LET v == h.values[b][i] IN
         IF isPending(v) THEN Result(h, "IsPendingSyncWrite", 0)
         ELSE LET nv == updateFreqCounter(setValue(v, itm), inc)
                  h1 == [h EXCEPT !.values[b][i] = nv]
              IN  Result(epilogue(h1, prologue(v), prologue(nv)),
                         IF v.dirty THEN "WasDirty" ELSE "WasClean", i)

\* unlocked_updateStoredValue that reports the update of a committed entry
\* without storing the item's value
unlocked_updateStoredValue_keepsValue(h, b, i, itm, inc) ==
    IF ~h.activeState THEN Result(h, "logic_error", 0)
    ELSE LET v == h.values[b][i] IN
         IF isPending(v) THEN Result(h, "IsPendingSyncWrite", 0)
         ELSE IF itmIsPending(itm)
              THEN Result(unlocked_addNewStoredValue(h, b, itm).h,
                          "WasClean", 1)
         ELSE Result(h, IF v.dirty THEN "WasDirty" ELSE "WasClean", i)

\* unlocked_updateStoredValue that reports the dirty state of the entry after
\* the update
unlocked_updateStoredValue_dirtyAfter(h, b, i, itm, inc) ==
    IF ~h.activeState THEN Result(h, "logic_error", 0)
    ELSE LET v == h.values[b][i] IN
         IF isPending(v) THEN Result(h, "IsPendingSyncWrite", 0)
         ELSE IF itmIsPending(itm)
              THEN Result(unlocked_addNewStoredValue(h, b, itm).h,
                          "WasClean", 1)
         ELSE LET nv == updateFreqCounter(setValue(v, itm), inc)
                  h1 == [h EXCEPT !.values[b][i] = nv]
              IN  Result(epilogue(h1, prologue(v), prologue(nv)),
                         IF nv.dirty THEN "WasDirty" ELSE "WasClean", i)

\* HashTable::unlocked_updateStoredValue(hbl, v, itm)
unlocked_updateStoredValue(h, b, i, itm, inc) ==
    IF ~h.activeState THEN Result(h, "logic_error", 0)
    ELSE LET v == h.values[b][i] IN
         IF isPending(v) THEN Result(h, "IsPendingSyncWrite", 0)
         ELSE IF itmIsPending(itm)
              THEN Result(unlocked_addNewStoredValue(h, b, itm).h,
                          "WasClean", 1)
         ELSE LET nv == updateFreqCounter(setValue(v, itm), inc)
                  h1 == [h EXCEPT !.values[b][i] = nv]
              IN  Result(epilogue(h1, prologue(v), prologue(nv)),
                         IF v.dirty THEN "WasDirty" ELSE "WasClean", i)

\* set that links a new entry without looking the key up
set_alwaysAdds(h, itm, inc) ==
    LET htRes == findForWrite(h, itm.key, TRUE) IN
    IF htRes.status # "ok" THEN Result(h, htRes.status, 0)
    ELSE Result(unlocked_addNewStoredValue(h, htRes.bucket, itm).h,
                "WasClean", 1)

\* HashTable::set(val); findForWrite is called with its default
\* wantsDeleted (WantsDeleted::Yes).
set(h, itm, inc) ==
    LET htRes == findForWrite(h, itm.key, TRUE) IN
    IF htRes.status # "ok" THEN Result(h, htRes.status, 0)
    ELSE IF htRes.storedValue # 0
         THEN unlocked_updateStoredValue(h, htRes.bucket, htRes.storedValue,
                                         itm, inc)
    ELSE Result(unlocked_addNewStoredValue(h, htRes.bucket, itm).h,
                "WasClean", 1)

\* unlocked_release_inner that unlinks the entry and leaves the statistics
unlocked_release_inner_noEpilogue(h, b, S) ==
    IF ~h.activeState THEN Result(h, "logic_error", 0)
    ELSE LET i == FirstIdx(S) IN
         IF i = 0 THEN Result(h, "logic_error", 0)
         ELSE Result([h EXCEPT !.values[b] = RemoveAt(@, i)], "ok", i)

\* unlocked_release_inner that unlinks the last entry that satisfies the
\* predicate
unlocked_release_inner_lastMatch(h, b, S) ==
    IF ~h.activeState THEN Result(h, "logic_error", 0)
    ELSE IF S = {} THEN Result(h, "logic_error", 0)
    ELSE LET i == CHOOSE j \in S : \A l \in S : l <= j
             released == h.values[b][i]
             h1 == [h EXCEPT !.values[b] = RemoveAt(@, i)]
         IN  Result(epilogue(h1, prologue(released), NullProperties), "ok", i)

\* HashTable::unlocked_release_inner(hbl, releasePredicate); S holds the
\* indexes of the chain's entries that satisfy the predicate.
unlocked_release_inner(h, b, S) ==
    IF ~h.activeState THEN Result(h, "logic_error", 0)
    ELSE LET i == FirstIdx(S) IN
         IF i = 0 THEN Result(h, "logic_error", 0)
         ELSE LET released == h.values[b][i]
                  h1 == [h EXCEPT !.values[b] = RemoveAt(@, i)]
              IN  Result(epilogue(h1, prologue(released), NullProperties),
                         "ok", i)

\* HashTable::unlocked_release(hbl, key): the first StoredValue with the key
unlocked_release_key(h, b, k) ==
    unlocked_release_inner(h, b,
        {i \in 1..Len(h.values[b]) : hasKey(h.values[b][i], k)})

\* HashTable::unlocked_release(hbl, valueToRelease): the StoredValue itself
unlocked_release_ptr(h, b, i) ==
    unlocked_release_inner(h, b, {j \in 1..Len(h.values[b]) : j = i})

\* HashTable::unlocked_replaceByCopy(hbl, vToCopy)
unlocked_replaceByCopy(h, b, i) ==
    IF ~h.activeState THEN Result(h, "invalid_argument", 0)
    ELSE LET vToCopy == h.values[b][i]
             rel == unlocked_release_key(h, b, vToCopy.key)
         IN  IF Threw(rel) THEN rel
             ELSE LET h1 == [rel.h EXCEPT !.values[b] = <<vToCopy>> \o @]
                  IN  Result(epilogue(h1, NullProperties, prologue(vToCopy)),
                             "ok", rel.sv)

\* unlocked_softDelete that deletes an entry in any committed state
unlocked_softDelete_anyState(h, b, i, onlyMarkDeleted) ==
    LET v == h.values[b][i]
        nv == IF onlyMarkDeleted THEN markDeleted(v) ELSE del(v)
        h1 == [h EXCEPT !.values[b][i] = nv]
    IN  Result(epilogue(h1, prologue(v), prologue(nv)), "Success", i)

\* HashTable::unlocked_softDelete(hbl, v, onlyMarkDeleted, delSource)
unlocked_softDelete(h, b, i, onlyMarkDeleted) ==
    LET v == h.values[b][i] IN
    IF isPending(v) THEN Result(h, "IsPendingSyncWrite", 0)
    ELSE LET nv == IF onlyMarkDeleted THEN markDeleted(v) ELSE del(v)
             h1 == [h EXCEPT !.values[b][i] = nv]
         IN  Result(epilogue(h1, prologue(v), prologue(nv)), "Success", i)

\* HashTable::unlocked_del(hbl, key)
unlocked_del_key(h, b, k) == unlocked_release_key(h, b, k)

\* HashTable::unlocked_del(hbl, value)
unlocked_del_ptr(h, b, i) == unlocked_release_ptr(h, b, i)

\* HashTable::cleanupIfTemporaryItem(hbl, v)
cleanupIfTemporaryItem(h, b, i) ==
    LET v == h.values[b][i] IN
    IF v.temp \in {TempDeleted, TempNonExistent}
    THEN unlocked_del_key(h, b, v.key)
    ELSE Result(h, "ok", 0)

\* HashTable::updateMaxDeletedRevSeqno(seqno)
updateMaxDeletedRevSeqno(h, seqno) ==
    IF seqno > h.maxDeletedRevSeqno
    THEN [h EXCEPT !.maxDeletedRevSeqno = seqno] ELSE h

\* unlocked_ejectItem that forgets the revision of an entry it removes
unlocked_ejectItem_noRevSeqno(h, b, i, policy) ==
    LET vptr == h.values[b][i] IN
    IF ~eligibleForEviction(vptr, policy)
    THEN Result([h EXCEPT !.stats.numFailedEjects = @ + 1], "false", i)
    ELSE IF policy = "Value"
    THEN LET nv == markNotResident(vptr)
             h1 == [h EXCEPT !.values[b][i] = nv,
                             !.stats.numValueEjects = @ + 1]
             h2 == epilogue(h1, prologue(vptr), prologue(nv))
         IN  Result([h2 EXCEPT !.numEjects = @ + 1], "true", i)
    ELSE LET h1 == [h EXCEPT !.values[b] = RemoveAt(@, i),
                             !.stats.numValueEjects =
                                 IF vptr.resident THEN @ + 1 ELSE @]
             h2 == epilogue(h1, prologue(vptr), NullProperties)
         IN  Result([h2 EXCEPT !.numEjects = @ + 1], "true", 0)

\* unlocked_ejectItem that counts a failed eject in numEjects too
unlocked_ejectItem_countsFailed(h, b, i, policy) ==
    LET vptr == h.values[b][i] IN
    IF ~eligibleForEviction(vptr, policy)
    THEN Result([h EXCEPT !.stats.numFailedEjects = @ + 1,
                          !.numEjects = @ + 1], "false", i)
    ELSE IF policy = "Value"
    THEN LET nv == markNotResident(vptr)
             h1 == [h EXCEPT !.values[b][i] = nv,
                             !.stats.numValueEjects = @ + 1]
             h2 == epilogue(h1, prologue(vptr), prologue(nv))
         IN  Result([h2 EXCEPT !.numEjects = @ + 1], "true", i)
    ELSE LET h1 == [h EXCEPT !.values[b] = RemoveAt(@, i),
                             !.stats.numValueEjects =
                                 IF vptr.resident THEN @ + 1 ELSE @]
             h2 == epilogue(h1, prologue(vptr), NullProperties)
             h3 == updateMaxDeletedRevSeqno(h2, vptr.revSeqno)
         IN  Result([h3 EXCEPT !.numEjects = @ + 1], "true", 0)

\* HashTable::unlocked_ejectItem(hbl, vptr, policy)
unlocked_ejectItem(h, b, i, policy) ==
    LET vptr == h.values[b][i] IN
    IF ~eligibleForEviction(vptr, policy)
    THEN Result([h EXCEPT !.stats.numFailedEjects = @ + 1], "false", i)
    ELSE IF policy = "Value"
    THEN LET nv == markNotResident(vptr)
             h1 == [h EXCEPT !.values[b][i] = nv,
                             !.stats.numValueEjects = @ + 1]
             h2 == epilogue(h1, prologue(vptr), prologue(nv))
         IN  Result([h2 EXCEPT !.numEjects = @ + 1], "true", i)
    ELSE LET bucket_num == getBucketForHash(h, Hash(vptr.key))
             idx == FirstIdx({j \in 1..Len(h.values[bucket_num]) :
                                  bucket_num = b /\ j = i})
             h1 == [h EXCEPT !.values[bucket_num] = RemoveAt(@, idx),
                             !.stats.numValueEjects =
                                 IF vptr.resident THEN @ + 1 ELSE @]
             h2 == epilogue(h1, prologue(vptr), NullProperties)
             h3 == updateMaxDeletedRevSeqno(h2, vptr.revSeqno)
         IN  Result([h3 EXCEPT !.numEjects = @ + 1], "true", 0)

\* unlocked_restoreValue without the statistics epilogue
unlocked_restoreValue_noEpilogue(h, b, i, itm) ==
    LET v == h.values[b][i] IN
    IF ~h.activeState \/ v.resident THEN Result(h, "false", i)
    ELSE Result([h EXCEPT !.values[b][i] = restoreValue(v, itm)], "true", i)

\* HashTable::unlocked_restoreValue(htLock, itm, v)
unlocked_restoreValue(h, b, i, itm) ==
    LET v == h.values[b][i] IN
    IF ~h.activeState \/ v.resident THEN Result(h, "false", i)
    ELSE LET nv == restoreValue(v, itm)
             h1 == [h EXCEPT !.values[b][i] = nv]
         IN  Result(epilogue(h1, prologue(v), prologue(nv)), "true", i)

\* HashTable::unlocked_restoreMeta(htLock, itm, v)
unlocked_restoreMeta(h, b, i, itm) ==
    IF ~h.activeState THEN Result(h, "logic_error", 0)
    ELSE LET v == h.values[b][i]
             nv == restoreMeta(v, itm)
             h1 == [h EXCEPT !.values[b][i] = nv]
         IN  Result(epilogue(h1, prologue(v), prologue(nv)), "ok", i)

\* HashTable::storeCompressedBuffer(buf, v)
htStoreCompressedBuffer(h, b, i) ==
    LET v == h.values[b][i]
        nv == storeCompressedBuffer(v)
        h1 == [h EXCEPT !.values[b][i] = nv]
    IN  Result(epilogue(h1, prologue(v), prologue(nv)), "ok", i)

\* insertFromWarmup that updates an entry it finds also when keyMetaDataOnly
\* is set
insertFromWarmup_metaUpdates(h, itm, eject, keyMetaDataOnly, evictionPolicy) ==
    LET htRes == findInner(h, itm.key)
        b == htRes.bucket
        found == IF itmIsCommitted(itm) THEN htRes.committedSV
                 ELSE htRes.pendingSV
    IN
    IF htRes.status # "ok" THEN Result(h, htRes.status, 0)
    ELSE IF found = 0
    THEN LET h1 == unlocked_addNewStoredValue(h, b, itm).h
             v1 == h1.values[b][1]
             h2 == IF keyMetaDataOnly
                   THEN epilogue([h1 EXCEPT !.values[b][1] = markNotResident(v1)],
                                 prologue(v1), prologue(markNotResident(v1)))
                   ELSE h1
             h3 == [h2 EXCEPT !.values[b][1].dirty = FALSE]
             h4 == IF eject /\ ~keyMetaDataOnly
                   THEN unlocked_ejectItem(h3, b, 1, evictionPolicy).h
                   ELSE h3
         IN  Result(h4, "NotFound", 1)
    ELSE LET v == h.values[b][found] IN
         IF v.cas # itm.cas /\ v.cas # 0 THEN Result(h, "InvalidCas", found)
         ELSE LET h1 == IF v.cas # itm.cas
                        THEN [h EXCEPT !.values[b][found].cas = itm.cas,
                                       !.values[b][found].revSeqno = itm.revSeqno]
                        ELSE h
                  r == IF ~h1.values[b][found].resident
                       THEN unlocked_restoreValue(h1, b, found, itm)
                       ELSE Result(h1, "true", found)
                  h3 == [r.h EXCEPT !.values[b][found].dirty = FALSE]
                  h4 == IF eject /\ ~keyMetaDataOnly
                        THEN unlocked_ejectItem(h3, b, found, evictionPolicy).h
                        ELSE h3
              IN  IF r.status # "true" THEN Result(r.h, "ExpectsFailed", found)
                  ELSE Result(h4, "NotFound", found)

\* insertFromWarmup that does not mark an entry it found clean.
insertFromWarmup_keepsDirty(h, itm, eject, keyMetaDataOnly, evictionPolicy) ==
    LET htRes == findInner(h, itm.key)
        b == htRes.bucket
        found == IF itmIsCommitted(itm) THEN htRes.committedSV
                 ELSE htRes.pendingSV
    IN
    IF htRes.status # "ok" THEN Result(h, htRes.status, 0)
    ELSE IF found = 0
    THEN LET h1 == unlocked_addNewStoredValue(h, b, itm).h
             v1 == h1.values[b][1]
             h2 == IF keyMetaDataOnly
                   THEN epilogue([h1 EXCEPT !.values[b][1] = markNotResident(v1)],
                                 prologue(v1), prologue(markNotResident(v1)))
                   ELSE h1
             h3 == [h2 EXCEPT !.values[b][1].dirty = FALSE]
             h4 == IF eject /\ ~keyMetaDataOnly
                   THEN unlocked_ejectItem(h3, b, 1, evictionPolicy).h
                   ELSE h3
         IN  Result(h4, "NotFound", 1)
    ELSE IF keyMetaDataOnly THEN Result(h, "InvalidCas", found)
    ELSE LET v == h.values[b][found] IN
         IF v.cas # itm.cas /\ v.cas # 0 THEN Result(h, "InvalidCas", found)
         ELSE LET h1 == IF v.cas # itm.cas
                        THEN [h EXCEPT !.values[b][found].cas = itm.cas,
                                       !.values[b][found].revSeqno = itm.revSeqno]
                        ELSE h
                  r == IF ~h1.values[b][found].resident
                       THEN unlocked_restoreValue(h1, b, found, itm)
                       ELSE Result(h1, "true", found)
                  h3 == r.h
                  h4 == IF eject /\ ~keyMetaDataOnly
                        THEN unlocked_ejectItem(h3, b, found, evictionPolicy).h
                        ELSE h3
              IN  IF r.status # "true" THEN Result(r.h, "ExpectsFailed", found)
                  ELSE Result(h4, "NotFound", found)

\* HashTable::insertFromWarmup(itm, eject, keyMetaDataOnly, evictionPolicy)
insertFromWarmup(h, itm, eject, keyMetaDataOnly, evictionPolicy) ==
    LET htRes == findInner(h, itm.key)
        b == htRes.bucket
        found == IF itmIsCommitted(itm) THEN htRes.committedSV
                 ELSE htRes.pendingSV
    IN
    IF htRes.status # "ok" THEN Result(h, htRes.status, 0)
    ELSE IF found = 0
    THEN LET h1 == unlocked_addNewStoredValue(h, b, itm).h
             v1 == h1.values[b][1]
             h2 == IF keyMetaDataOnly
                   THEN epilogue([h1 EXCEPT !.values[b][1] = markNotResident(v1)],
                                 prologue(v1), prologue(markNotResident(v1)))
                   ELSE h1
             h3 == [h2 EXCEPT !.values[b][1].dirty = FALSE]
             h4 == IF eject /\ ~keyMetaDataOnly
                   THEN unlocked_ejectItem(h3, b, 1, evictionPolicy).h
                   ELSE h3
         IN  Result(h4, "NotFound", 1)
    ELSE IF keyMetaDataOnly THEN Result(h, "InvalidCas", found)
    ELSE LET v == h.values[b][found] IN
         IF v.cas # itm.cas /\ v.cas # 0 THEN Result(h, "InvalidCas", found)
         ELSE LET h1 == IF v.cas # itm.cas
                        THEN [h EXCEPT !.values[b][found].cas = itm.cas,
                                       !.values[b][found].revSeqno = itm.revSeqno]
                        ELSE h
                  r == IF ~h1.values[b][found].resident
                       THEN unlocked_restoreValue(h1, b, found, itm)
                       ELSE Result(h1, "true", found)
                  h3 == [r.h EXCEPT !.values[b][found].dirty = FALSE]
                  h4 == IF eject /\ ~keyMetaDataOnly
                        THEN unlocked_ejectItem(h3, b, found, evictionPolicy).h
                        ELSE h3
              IN  IF r.status # "true" THEN Result(r.h, "ExpectsFailed", found)
                  ELSE Result(h4, "NotFound", found)

\* Sum of f over the entries of a chain
RECURSIVE ChainSum(_, _)
ChainSum(chain, valueOnly) ==
    IF chain = <<>> THEN 0
    ELSE (IF valueOnly THEN valuelen(Head(chain)) ELSE svSize(Head(chain)))
             + ChainSum(Tail(chain), valueOnly)

RECURSIVE TableSum(_, _, _)
TableSum(h, i, valueOnly) ==
    IF i >= h.size THEN 0
    ELSE ChainSum(h.values[i], valueOnly) + TableSum(h, i + 1, valueOnly)

\* HashTable::clear_UNLOCKED(deactivate)
clear_UNLOCKED(h, deactivate) ==
    LET clearedMemSize == TableSum(h, 0, FALSE)
        clearedValSize == TableSum(h, 0, TRUE)
    IN  [h EXCEPT !.activeState = IF deactivate THEN FALSE ELSE @,
                  !.values = [b \in DOMAIN h.values |->
                                  IF b < h.size THEN <<>> ELSE h.values[b]],
                  !.stats.currentSize = @ - (clearedMemSize - clearedValSize),
                  !.valueStats = StatisticsReset(@)]

\* HashTable::clear(deactivate)
clear(h, deactivate) ==
    IF ~deactivate /\ ~h.activeState THEN Result(h, "logic_error", 0)
    ELSE Result(clear_UNLOCKED(h, deactivate), "ok", 0)

\* Relink that overwrites the destination chain instead of linking in front
RECURSIVE Relink_overwrites(_, _, _)
Relink_overwrites(chain, newValues, h) ==
    IF chain = <<>> THEN newValues
    ELSE LET v == Head(chain)
             newBucket == getBucketForHash(h, Hash(v.key))
         IN  Relink_overwrites(Tail(chain),
                               [newValues EXCEPT ![newBucket] = <<v>>], h)

\* The inner loop of resize: unlink the front element of the chain and
\* re-link it at the head of its chain in newValues.
RECURSIVE Relink(_, _, _)
Relink(chain, newValues, h) ==
    IF chain = <<>> THEN newValues
    ELSE LET v == Head(chain)
             newBucket == getBucketForHash(h, Hash(v.key))
         IN  Relink(Tail(chain),
                    [newValues EXCEPT ![newBucket] = <<v>> \o @], h)

\* The outer loop of resize over the old buckets i .. oldSize-1; h already
\* carries the new size.
RECURSIVE MoveRecords(_, _, _, _)
MoveRecords(i, oldSize, newValues, h) ==
    IF i >= oldSize THEN newValues
    ELSE MoveRecords(i + 1, oldSize, Relink(h.values[i], newValues, h), h)

\* resize that moves the records before it stores the new size
resizeLocked_staleSize(h, newSize) ==
    LET h1 == [h EXCEPT !.stats.memOverhead = @ - memorySize(h),
                        !.numResizes = @ + 1]
        h3 == [h1 EXCEPT !.values = MoveRecords(0, h.size,
                                                EmptyTable(newSize), h1),
                         !.size = newSize]
    IN  [h3 EXCEPT !.stats.memOverhead = @ + memorySize(h3)]

\* resizeStoreSize that does not count the resize
resizeStoreSize_noCount(h, newSize) ==
    [h EXCEPT !.stats.memOverhead = @ - memorySize(h),
              !.size = newSize]

\* HashTable::resize(newSize), lines 245-253: the overhead of the old
\* table is subtracted, numResizes counted and the new size stored.
resizeStoreSize(h, newSize) ==
    [h EXCEPT !.stats.memOverhead = @ - memorySize(h),
              !.numResizes = @ + 1,
              !.size = newSize]

\* HashTable::resize(newSize), lines 255-272: the records are moved into the
\* new vector, which replaces values; h already carries the new size.
resizeMoveRecords(h, oldSize) ==
    LET h3 == [h EXCEPT !.values = MoveRecords(0, oldSize,
                                               EmptyTable(h.size), h)]
    IN  [h3 EXCEPT !.stats.memOverhead = @ + memorySize(h3)]

\* HashTable::resize(newSize), from the point where all mutexes are held and
\* no visitor was seen.
resizeLocked(h, newSize) ==
    resizeMoveRecords(resizeStoreSize(h, newSize), h.size)

\* resize(newSize) without the test for the size the table already has
resize_noSameSizeTest(h, newSize) ==
    IF ~h.activeState THEN Result(h, "logic_error", 0)
    ELSE IF newSize > INT_MAX THEN Result(h, "too_big", 0)
    ELSE IF h.visitors > 0 THEN Result(h, "visitors", 0)
    ELSE Result(resizeLocked(h, newSize), "resized", 0)

\* HashTable::resize(newSize)
resize(h, newSize) ==
    IF ~h.activeState THEN Result(h, "logic_error", 0)
    ELSE IF newSize > INT_MAX THEN Result(h, "too_big", 0)
    ELSE IF newSize = h.size THEN Result(h, "same_size", 0)
    ELSE IF h.visitors > 0 THEN Result(h, "visitors", 0)
    ELSE Result(resizeLocked(h, newSize), "resized", 0)

(***************************************************************************)
(* Spec: every operation runs to completion under the locks it takes.      *)
(***************************************************************************)
Threads == {"visitor", "depth", "resizer", "writer", "clearer", "destroyer",
            "setter1", "setter2", "sampler"}

\* HashTable::Position
Position(ht_size, lock, hash_bucket) ==
    [ht_size |-> ht_size, lock |-> lock, hash_bucket |-> hash_bucket]

\* HashTable::endPosition()
endPosition(h) == Position(h.size, NumLocks, h.size)

\* HashTable::pauseResumeVisit(visitor, start_pos) run to completion from the
\* start position with a visitor that never pauses: an empty or inactive table
\* has nothing to visit, otherwise every linked entry is visited; either way
\* the call returns endPosition() and leaves the table as it was (visitors is
\* raised and lowered again). sv is the number of entries visited.
pauseResumeVisit(h) ==
    IF h.valueStats.numItems + h.valueStats.numTempItems = 0 \/ ~h.activeState
    THEN Result(h, "endPosition", 0)
    ELSE Result(h, "endPosition", NumLinked(h))

\* HashTable::visitDepth(visitor) run to completion: returns at once for a
\* table without items or an inactive one, otherwise reports the depth of
\* every bucket. sv is the largest depth reported.
visitDepth(h) ==
    IF h.valueStats.numItems = 0 \/ ~h.activeState
    THEN Result(h, "returned", 0)
    ELSE Result(h, "returned",
                CHOOSE d \in 0..(MaxChain + 2) :
                    /\ \A b \in DOMAIN h.values : Len(h.values[b]) <= d
                    /\ \E b \in DOMAIN h.values : Len(h.values[b]) = d)

\* getRandomKeyFromSlot that looks at the head of the chain only
getRandomKeyFromSlot_headOnly(h, slot) ==
    FirstIdx({i \in 1..Len(h.values[slot]) :
                  LET v == h.values[slot][i]
                  IN  /\ i = 1
                      /\ ~isTempItem(v) /\ ~v.deleted /\ v.resident
                      /\ ~isPending(v)})

\* HashTable::getRandomKeyFromSlot(slot): the first entry of the chain that
\* is committed, resident, not deleted and not temporary (0: none)
getRandomKeyFromSlot(h, slot) ==
    FirstIdx({i \in 1..Len(h.values[slot]) :
                  LET v == h.values[slot][i]
                  IN  /\ ~isTempItem(v) /\ ~v.deleted /\ v.resident
                      /\ ~isPending(v)})

\* The do-while loop of getRandomKey (lines 308-313) from slot curr on: the
\* slot is probed, curr is advanced and wrapped, and the loop goes on while
\* nothing was found and curr has not come back to start. The result is the
\* last slot probed, the entry found there (0: none) and the slots probed,
\* in order.
RECURSIVE getRandomKeyLoop(_, _, _, _)
getRandomKeyLoop(h, curr, start, probed) ==
    LET ret == getRandomKeyFromSlot(h, curr)
        next == IF curr + 1 = h.size THEN 0 ELSE curr + 1
    IN  IF ret = 0 /\ next # start
        THEN getRandomKeyLoop(h, next, start, Append(probed, curr))
        ELSE [slot |-> curr, ret |-> ret, probed |-> Append(probed, curr)]

\* HashTable::getRandomKey(rnd): the slots are tried from rnd % size onwards,
\* wrapping round, until one yields an item or all have been tried. sv is the
\* key of the item returned (0: nullptr). There is no check of the active
\* flag: a deactivated table keeps its size and has empty chains.
getRandomKey(h, rnd) ==
    LET start == rnd % h.size
        l == getRandomKeyLoop(h, start, start, <<>>)
    IN  IF l.ret = 0 THEN Result(h, "nullptr", 0)
        ELSE Result(h, "item", h.values[l.slot][l.ret].key)

\* The local variables of each thread's function, and what the model
\* remembers of the scan and of the calls made so far. Of a call of
\* pauseResumeVisit it remembers the bucket in which the visitor paused
\* (pausedAt) and the first bucket visited (first), -1 for none, and of a scan
\* the buckets visited since a call last found the size changed or started
\* from a position of lock L (seen).
InitLocals(t) ==
    CASE t = "visitor" ->
             [start_pos |-> Position(0, 0, 0), lock |-> 0, hash_bucket |-> 0,
              paused |-> FALSE, scanning |-> FALSE, present0 |-> {},
              visited |-> [k \in Keys |-> 0], midPause |-> FALSE,
              resized |-> FALSE, calls |-> 0, pausedAt |-> -1, first |-> -1,
              seen |-> {}, everPaused |-> FALSE]
      [] t = "depth" -> [l |-> 0, i |-> 0, calls |-> 0, threw |-> FALSE]
      [] t = "resizer" ->
             [newSize |-> 0, k |-> 0, oldSize |-> 0, result |-> "none",
              numResizes0 |-> 0, deferred |-> FALSE]
      [] t = "writer" ->
             [itm |-> Item(0, 0, CommittedViaMutation, FALSE, NotTemp),
              bucket |-> 0, n |-> 0]
      [] t = "clearer" -> [deactivate |-> FALSE, k |-> 0, n |-> 0,
                           result |-> "none"]
      [] t = "destroyer" -> [raced |-> FALSE]
      [] t \in {"setter1", "setter2"} ->
             [itm |-> Item(0, 0, CommittedViaMutation, FALSE, NotTemp),
              bucket |-> 0, found |-> 0, n |-> 0]
      [] t = "sampler" ->
             [start |-> 0, curr |-> 0, slot |-> 0, mutex |-> 0, ret |-> 0,
              outOfRange |-> FALSE, n |-> 0]

\* What the model remembers, for a key, of the committed item that set stored
\* last with nothing done to the key since (valid = FALSE: nothing).
NoItem == [valid |-> FALSE, value |-> 0, deleted |-> FALSE]

\* The calls that only look a key up.
FindOps == {"findForRead", "findForWrite", "findForCommit",
            "findOnlyCommitted", "findOnlyPrepared"}

NoOp == [op |-> "none", status |-> "none", sv |-> 0, key |-> 0, arg |-> 0,
         written |-> [k \in Keys |-> NoItem]]

\* written after the call name(k, arg) returned status: a set that stored a
\* committed item records it; lookups, resizes and calls on other keys keep
\* what was recorded; every other call on the key forgets it.
Written(w, name, status, k, arg) ==
    [kk \in Keys |->
        IF name = "set" /\ kk = k /\ status \in {"WasClean", "WasDirty"}
           /\ itmIsCommitted(arg)
        THEN [valid |-> TRUE, value |-> arg.value, deleted |-> arg.deleted]
        ELSE IF name \in FindOps \/ name = "resize"
                \/ (kk # k /\ name # "clear")
        THEN w[kk]
        ELSE NoItem]

Init ==
    /\ values = NewHashTable.values
    /\ size = NewHashTable.size
    /\ activeState = NewHashTable.activeState
    /\ visitors = NewHashTable.visitors
    /\ valueStats = NewHashTable.valueStats
    /\ stats = NewHashTable.stats
    /\ numEjects = NewHashTable.numEjects
    /\ numResizes = NewHashTable.numResizes
    /\ maxDeletedRevSeqno = NewHashTable.maxDeletedRevSeqno
    /\ lastOp = NoOp
    /\ nOps = 0
    /\ mutexes = [l \in 0..(NumLocks - 1) |-> "free"]
    /\ pc = [t \in Threads |-> "idle"]
    /\ loc = [t \in Threads |-> InitLocals(t)]

\* The HashTable becomes h.
Becomes(h) ==
    /\ values' = h.values
    /\ size' = h.size
    /\ activeState' = h.activeState
    /\ visitors' = h.visitors
    /\ valueStats' = h.valueStats
    /\ stats' = h.stats
    /\ numEjects' = h.numEjects
    /\ numResizes' = h.numResizes
    /\ maxDeletedRevSeqno' = h.maxDeletedRevSeqno

\* One completed call: its effect on the table and what it returned.
Call(name, r, k, arg) ==
    /\ nOps < MaxOps
    /\ \E res \in {r} :
          /\ NumLinked(res.h) <= MaxChain
          /\ Becomes(res.h)
          /\ lastOp' = [op |-> name, status |-> res.status, sv |-> res.sv,
                        key |-> k, arg |-> arg,
                        written |-> Written(lastOp.written, name, res.status,
                                            k, arg)]
    /\ nOps' = nOps + 1
    /\ UNCHANGED <<mutexes, pc, loc>>

Set ==
    /\ nOps < MaxOps
    /\ \E itm \in SetItems, inc \in {0, 1} :
           Call("set", set(HT, itm, inc), itm.key, itm)

\* VBucket::addTempStoredValue: unlocked_addNewStoredValue with a temporary
\* item, called for a key that findForWrite did not find. A temp-initial
\* entry turns temp-deleted or temp-non-existent when its background fetch
\* completes; the model links it in the state it will have.
AddTempItem ==
    /\ nOps < MaxOps
    /\ \E k \in Keys, tmp \in {TempInit, TempDeleted, TempNonExistent} :
           LET f == findForWrite(HT, k, TRUE) IN
           /\ f.status = "ok" /\ f.storedValue = 0
           /\ Call("addTemp",
                   unlocked_addNewStoredValue(HT, f.bucket,
                       Item(k, 1, CommittedViaMutation, FALSE, tmp)), k, tmp)

InsertFromWarmup ==
    /\ nOps < MaxOps
    /\ \E itm \in WarmupItems, eject \in BOOLEAN, keyMetaDataOnly \in BOOLEAN,
          evictionPolicy \in {"Value", "Full"} :
           \* eject is read only when keyMetaDataOnly is false (line 787), and
           \* evictionPolicy only when the item is ejected
           /\ keyMetaDataOnly => ~eject
           /\ ~eject => evictionPolicy = "Value"
           \* warmup loads documents found on disk: none exists for a key whose
           \* placeholder records that a fetch found nothing
           /\ \A b \in DOMAIN values : \A i \in DOMAIN values[b] :
                  values[b][i].key = itm.key
                      => values[b][i].temp # TempNonExistent
           /\ Call("insertFromWarmup",
                   insertFromWarmup(HT, itm, eject, keyMetaDataOnly,
                                    evictionPolicy),
                   itm.key,
                   [itm |-> itm, keyMetaDataOnly |-> keyMetaDataOnly])

SoftDelete ==
    /\ nOps < MaxOps
    /\ \E e \in Entries(HT), onlyMarkDeleted \in BOOLEAN :
           Call("softDelete",
                unlocked_softDelete(HT, e[1], e[2], onlyMarkDeleted),
                values[e[1]][e[2]].key, e)

ReplaceByCopy ==
    /\ nOps < MaxOps
    /\ \E e \in Entries(HT) :
           Call("replaceByCopy", unlocked_replaceByCopy(HT, e[1], e[2]),
                values[e[1]][e[2]].key, e)

DelKey ==
    /\ nOps < MaxOps
    /\ \E k \in Keys :
           Call("delKey",
                unlocked_del_key(HT, getBucketForHash(HT, Hash(k)), k), k, k)

DelPtr ==
    /\ nOps < MaxOps
    /\ \E e \in Entries(HT) :
           Call("delPtr", unlocked_del_ptr(HT, e[1], e[2]),
                values[e[1]][e[2]].key, e)

CleanupIfTemporaryItem ==
    /\ nOps < MaxOps
    /\ \E e \in Entries(HT) :
           Call("cleanupIfTemporaryItem", cleanupIfTemporaryItem(HT, e[1], e[2]),
                values[e[1]][e[2]].key, e)

EjectItem ==
    /\ nOps < MaxOps
    /\ \E e \in Entries(HT), policy \in {"Value", "Full"} :
           Call("ejectItem", unlocked_ejectItem(HT, e[1], e[2], policy),
                values[e[1]][e[2]].key, [e |-> e, policy |-> policy])

RestoreValue ==
    /\ nOps < MaxOps
    /\ \E e \in Entries(HT), itm \in FetchedItems :
           /\ itm.key = values[e[1]][e[2]].key
           /\ Call("restoreValue", unlocked_restoreValue(HT, e[1], e[2], itm),
                   itm.key, [e |-> e, itm |-> itm])

RestoreMeta ==
    /\ nOps < MaxOps
    /\ \E e \in Entries(HT), itm \in FetchedItems :
           /\ itm.key = values[e[1]][e[2]].key
           \* metadata is fetched for the placeholder of a fetch in flight
           /\ values[e[1]][e[2]].temp = TempInit
           /\ Call("restoreMeta", unlocked_restoreMeta(HT, e[1], e[2], itm),
                   itm.key, [e |-> e, itm |-> itm])

StoreCompressedBuffer ==
    /\ nOps < MaxOps
    /\ \E e \in Entries(HT) :
           Call("storeCompressedBuffer", htStoreCompressedBuffer(HT, e[1], e[2]),
                values[e[1]][e[2]].key, e)

Resize ==
    /\ nOps < MaxOps
    /\ \E newSize \in Sizes : Call("resize", resize(HT, newSize), 0, newSize)

Clear ==
    /\ nOps < MaxOps
    /\ \E deactivate \in BOOLEAN : Call("clear", clear(HT, deactivate), 0, deactivate)

\* HashTable::visit: pauseResumeVisit from the start position to the end
PauseResumeVisit == Call("pauseResumeVisit", pauseResumeVisit(HT), 0, 0)

VisitDepth == Call("visitDepth", visitDepth(HT), 0, 0)

GetRandomKey ==
    /\ nOps < MaxOps
    /\ \E rnd \in 0..MaxRnd :
           Call("getRandomKey", getRandomKey(HT, rnd), 0, rnd)

FindForRead ==
    /\ nOps < MaxOps
    /\ \E k \in Keys, trackReference \in BOOLEAN, wantsDeleted \in BOOLEAN,
          inc \in {0, 1} :
           Call("findForRead",
                findForRead(HT, k, trackReference, wantsDeleted, inc), k,
                [trackReference |-> trackReference,
                 wantsDeleted |-> wantsDeleted, inc |-> inc])

FindForWrite ==
    /\ nOps < MaxOps
    /\ \E k \in Keys, wantsDeleted \in BOOLEAN :
           LET f == findForWrite(HT, k, wantsDeleted) IN
           Call("findForWrite", Result(HT, f.status, f.storedValue), k,
                wantsDeleted)

\* findForCommit returns two entries: sv is the prepare, arg the committed one.
FindForCommit ==
    /\ nOps < MaxOps
    /\ \E k \in Keys :
           LET f == findForCommit(HT, k) IN
           Call("findForCommit", Result(HT, f.status, f.pending), k, f.committed)

FindOnlyCommitted ==
    /\ nOps < MaxOps
    /\ \E k \in Keys : Call("findOnlyCommitted", findOnlyCommitted(HT, k), k, 0)

FindOnlyPrepared ==
    /\ nOps < MaxOps
    /\ \E k \in Keys : Call("findOnlyPrepared", findOnlyPrepared(HT, k), k, 0)

Next ==
    \/ Set
    \/ AddTempItem
    \/ InsertFromWarmup
    \/ SoftDelete
    \/ ReplaceByCopy
    \/ DelKey
    \/ DelPtr
    \/ CleanupIfTemporaryItem
    \/ EjectItem
    \/ RestoreValue
    \/ RestoreMeta
    \/ StoreCompressedBuffer
    \/ Resize
    \/ Clear
    \/ FindForRead
    \/ FindForWrite
    \/ FindForCommit
    \/ FindOnlyCommitted
    \/ FindOnlyPrepared
    \/ PauseResumeVisit
    \/ VisitDepth
    \/ GetRandomKey

Spec == Init /\ [][Next]_vars

(***************************************************************************)
(* SpecConc: a visitor thread scanning with pauseResumeVisit, a thread       *)
(* calling visitDepth, a resizer thread calling resize(newSize) and a writer *)
(* thread calling set, one step per mutex operation. A thread that needs a   *)
(* held mutex waits.                                                         *)
(***************************************************************************)
Goto(t, label) == pc' = [pc EXCEPT ![t] = label]

Acquire(l, t) == mutexes[l] = "free" /\ mutexes' = [mutexes EXCEPT ![l] = t]

Release(l) == mutexes' = [mutexes EXCEPT ![l] = "free"]

\* Keys with an entry linked in the table
LinkedKeys == {values[e[1]][e[2]].key : e \in Entries(HT)}

\* HashTable::visit's loop condition and pauseResumeVisit lines 875-879:
\* a scan goes on until a call returns endPosition(); a call on an empty or
\* inactive table returns endPosition() at once.
PRVBegin ==
    LET v == loc["visitor"]
        first == ~v.scanning
        v1 == IF first
              THEN [v EXCEPT !.scanning = TRUE, !.present0 = LinkedKeys]
              ELSE v
    IN
    /\ pc["visitor"] = "idle"
    /\ IF v.start_pos = endPosition(HT)
       THEN /\ Goto("visitor", "done")
            /\ UNCHANGED loc
       ELSE IF valueStats.numItems + valueStats.numTempItems = 0
                  \/ ~activeState
       THEN /\ loc' = [loc EXCEPT !["visitor"] =
                           [v1 EXCEPT !.start_pos = endPosition(HT)]]
            /\ UNCHANGED pc
       ELSE /\ loc' = [loc EXCEPT !["visitor"] = v1]
            /\ Goto("visitor", "v_lock0")
    /\ UNCHANGED <<htVars, lastOp, nOps, mutexes>>

\* pauseResumeVisit line 894: std::unique_lock<std::mutex> lh(mutexes[0])
PRVLock0 ==
    /\ pc["visitor"] = "v_lock0"
    /\ Acquire(0, "visitor")
    /\ Goto("visitor", "v_track")
    /\ UNCHANGED <<htVars, lastOp, nOps, loc>>

\* pauseResumeVisit lines 895-900: VisitorTracker vt(&visitors); lh.unlock();
\* the starting lock is taken from start_pos if in range.
PRVTrack ==
    LET v == loc["visitor"] IN
    /\ pc["visitor"] = "v_track"
    /\ visitors' = visitors + 1
    /\ Release(0)
    /\ loc' = [loc EXCEPT !["visitor"] =
                   [v EXCEPT !.lock = IF v.start_pos.lock < NumLocks
                                      THEN v.start_pos.lock ELSE 0,
                             !.hash_bucket = 0, !.paused = FALSE,
                             !.seen = IF /\ v.start_pos.ht_size = size
                                         /\ v.start_pos.lock < NumLocks
                                      THEN @ ELSE {}]]
    /\ Goto("visitor", "v_outer")
    /\ UNCHANGED <<values, size, activeState, valueStats, stats, numEjects,
                   numResizes, maxDeletedRevSeqno, lastOp, nOps>>

\* PRVOuter that always restarts a lock from its first bucket
PRVOuter_restartsLock ==
    LET v == loc["visitor"] IN
    /\ pc["visitor"] = "v_outer"
    /\ IF activeState /\ ~v.paused /\ v.lock < NumLocks
       THEN /\ loc' = [loc EXCEPT !["visitor"].hash_bucket = v.lock]
            /\ Goto("visitor", "v_inner")
       ELSE /\ Goto("visitor", "v_ret")
            /\ UNCHANGED loc
    /\ UNCHANGED <<htVars, lastOp, nOps, mutexes>>

\* pauseResumeVisit lines 902-911: the head of the outer loop
PRVOuter ==
    LET v == loc["visitor"] IN
    /\ pc["visitor"] = "v_outer"
    /\ IF activeState /\ ~v.paused /\ v.lock < NumLocks
       THEN /\ loc' = [loc EXCEPT !["visitor"].hash_bucket =
                           IF /\ v.start_pos.lock = v.lock
                              /\ v.start_pos.ht_size = size
                              /\ v.start_pos.hash_bucket < size
                           THEN v.start_pos.hash_bucket
                           ELSE v.lock]
            /\ Goto("visitor", "v_inner")
       ELSE /\ Goto("visitor", "v_ret")
            /\ UNCHANGED loc
    /\ UNCHANGED <<htVars, lastOp, nOps, mutexes>>

\* pauseResumeVisit lines 916-923 and 936-946: the head of the inner loop
\* takes the bucket's mutex; when the inner loop is over, the outer loop
\* breaks (paused before the lock's last bucket) or moves to the next lock.
PRVInner ==
    LET v == loc["visitor"] IN
    /\ pc["visitor"] = "v_inner"
    /\ IF ~v.paused /\ v.hash_bucket < size
       THEN /\ Acquire(v.lock, "visitor")
            /\ Goto("visitor", "v_chain")
            /\ UNCHANGED loc
       ELSE IF v.paused /\ v.hash_bucket < size
       THEN /\ Goto("visitor", "v_ret")
            /\ UNCHANGED <<loc, mutexes>>
       ELSE /\ loc' = [loc EXCEPT !["visitor"].hash_bucket = size,
                                  !["visitor"].lock = v.lock + 1]
            /\ Goto("visitor", "v_outer")
            /\ UNCHANGED mutexes
    /\ UNCHANGED <<htVars, lastOp, nOps>>

\* The visits of one call of the chain walk: entries 1..upto of the chain
RECURSIVE CountVisits(_, _, _)
CountVisits(visited, chain, upto) ==
    IF upto = 0 THEN visited
    ELSE CountVisits([visited EXCEPT ![chain[upto].key] = @ + 1],
                     chain, upto - 1)

\* PRVChain whose bucket index is advanced only when the visitor goes on
PRVChain_staysOnPause ==
    LET v == loc["visitor"]
        chain == IF v.hash_bucket \in DOMAIN values
                 THEN values[v.hash_bucket] ELSE <<>>
    IN
    /\ pc["visitor"] = "v_chain"
    /\ \E n \in 0..Len(chain) :
          loc' = [loc EXCEPT !["visitor"] =
              [v EXCEPT !.paused = (n > 0),
                        !.visited = CountVisits(@, chain,
                                        IF n > 0 THEN n ELSE Len(chain)),
                        !.midPause = @ \/ (n > 0 /\ n < Len(chain)),
                        !.everPaused = @ \/ n > 0,
                        !.pausedAt = IF n > 0 THEN v.hash_bucket ELSE @,
                        !.first = IF @ = -1 THEN v.hash_bucket ELSE @,
                        !.seen = @ \cup {v.hash_bucket},
                        !.hash_bucket = IF n > 0 THEN @ ELSE @ + NumLocks]]
    /\ Release(v.lock)
    /\ Goto("visitor", "v_inner")
    /\ UNCHANGED <<htVars, lastOp, nOps>>

\* pauseResumeVisit lines 925-933 and the increment of the inner loop: the
\* chain is walked under the bucket's mutex until its end or until the
\* visitor returns false; n is the visit at which the visitor pauses (0: it
\* does not pause in this chain).
PRVChain ==
    LET v == loc["visitor"]
        chain == IF v.hash_bucket \in DOMAIN values
                 THEN values[v.hash_bucket] ELSE <<>>
    IN
    /\ pc["visitor"] = "v_chain"
    /\ \E n \in 0..Len(chain) :
          loc' = [loc EXCEPT !["visitor"] =
              [v EXCEPT !.paused = (n > 0),
                        !.visited = CountVisits(@, chain,
                                        IF n > 0 THEN n ELSE Len(chain)),
                        !.midPause = @ \/ (n > 0 /\ n < Len(chain)),
                        !.everPaused = @ \/ n > 0,
                        !.pausedAt = IF n > 0 THEN v.hash_bucket ELSE @,
                        !.first = IF @ = -1 THEN v.hash_bucket ELSE @,
                        !.seen = @ \cup {v.hash_bucket},
                        !.hash_bucket = @ + NumLocks]]
    /\ Release(v.lock)
    /\ Goto("visitor", "v_inner")
    /\ UNCHANGED <<htVars, lastOp, nOps>>

\* pauseResumeVisit lines 923-930 when visitor.visit throws at the n-th entry
\* of the chain: the exception leaves the function through ~HashBucketLock
\* and ~VisitorTracker, no position is returned and the scan is abandoned
\* (of an abandoned scan the model remembers the calls made, nothing else).
PRVThrow ==
    LET v == loc["visitor"]
        chain == IF v.hash_bucket \in DOMAIN values
                 THEN values[v.hash_bucket] ELSE <<>>
    IN
    /\ pc["visitor"] = "v_chain"
    /\ chain # <<>>
    /\ loc' = [loc EXCEPT !["visitor"] =
                   [InitLocals("visitor") EXCEPT !.calls = v.calls]]
    /\ Release(v.lock)
    /\ visitors' = visitors - 1
    /\ Goto("visitor", "aborted")
    /\ UNCHANGED <<values, size, activeState, valueStats, stats, numEjects,
                   numResizes, maxDeletedRevSeqno, lastOp, nOps>>

\* PRVReturn that leaves the visitor registered
PRVReturn_keepsVisitor ==
    LET v == loc["visitor"] IN
    /\ pc["visitor"] = "v_ret"
    /\ loc' = [loc EXCEPT !["visitor"].start_pos =
                                  Position(size, v.lock, v.hash_bucket),
                          !["visitor"].calls = IF @ < 2 THEN @ + 1 ELSE @,
                          !["visitor"].pausedAt = -1,
                          !["visitor"].first = -1]
    /\ Goto("visitor", "idle")
    /\ UNCHANGED <<htVars, lastOp, nOps, mutexes>>

\* pauseResumeVisit line 949 and ~VisitorTracker: the next position is
\* returned and visitors decremented.
PRVReturn ==
    LET v == loc["visitor"] IN
    /\ pc["visitor"] = "v_ret"
    /\ visitors' = visitors - 1
    /\ loc' = [loc EXCEPT !["visitor"].start_pos =
                                  Position(size, v.lock, v.hash_bucket),
                          !["visitor"].calls = IF @ < 2 THEN @ + 1 ELSE @,
                          !["visitor"].pausedAt = -1,
                          !["visitor"].first = -1]
    /\ Goto("visitor", "idle")
    /\ UNCHANGED <<values, size, activeState, valueStats, stats, numEjects,
                   numResizes, maxDeletedRevSeqno, lastOp, nOps, mutexes>>

\* visitDepth lines 830-832: nothing to do on an empty or inactive table
VisitDepthBegin ==
    /\ pc["depth"] = "idle"
    /\ loc["depth"].calls < MaxDepthVisits
    /\ IF valueStats.numItems = 0 \/ ~activeState
       THEN /\ loc' = [loc EXCEPT !["depth"].calls = @ + 1]
            /\ UNCHANGED pc
       ELSE /\ Goto("depth", "d_lock0")
            /\ UNCHANGED loc
    /\ UNCHANGED <<htVars, lastOp, nOps, mutexes>>

\* visitDepth line 837: std::unique_lock<std::mutex> lh(mutexes[0])
VisitDepthLock0 ==
    /\ pc["depth"] = "d_lock0"
    /\ Acquire(0, "depth")
    /\ Goto("depth", "d_track")
    /\ UNCHANGED <<htVars, lastOp, nOps, loc>>

\* visitDepth lines 838-839: VisitorTracker vt(&visitors); lh.unlock()
VisitDepthTrack ==
    /\ pc["depth"] = "d_track"
    /\ visitors' = visitors + 1
    /\ Release(0)
    /\ loc' = [loc EXCEPT !["depth"].l = 0, !["depth"].i = 0]
    /\ Goto("depth", "d_loop")
    /\ UNCHANGED <<values, size, activeState, valueStats, stats, numEjects,
                   numResizes, maxDeletedRevSeqno, lastOp, nOps>>

\* visitDepth lines 841-845: the heads of the two loops; the bucket's mutex
\* is taken for each bucket.
VisitDepthLoop ==
    LET d == loc["depth"] IN
    /\ pc["depth"] = "d_loop"
    /\ IF d.l >= NumLocks
       THEN /\ Goto("depth", "d_ret")
            /\ UNCHANGED <<loc, mutexes>>
       ELSE IF d.i < size
       THEN /\ Acquire(d.l, "depth")
            /\ Goto("depth", "d_visit")
            /\ UNCHANGED loc
       ELSE /\ loc' = [loc EXCEPT !["depth"].l = d.l + 1,
                                  !["depth"].i = d.l + 1]
            /\ UNCHANGED <<pc, mutexes>>
    /\ UNCHANGED <<htVars, lastOp, nOps>>

\* visitDepth lines 847-869: the chain of bucket i is measured under its
\* mutex; a head entry that hashes to another bucket is a logic error, and
\* the visitor's visit (line 867) may throw (thrown). Either exception
\* releases the bucket's mutex and leaves the function.
VisitDepthVisit ==
    LET d == loc["depth"]
        chain == IF d.i \in DOMAIN values THEN values[d.i] ELSE <<>>
    IN
    /\ pc["depth"] = "d_visit"
    /\ Release(d.l)
    /\ \E thrown \in BOOLEAN :
          IF \/ chain # <<>> /\ getBucketForHash(HT, Hash(chain[1].key)) # d.i
             \/ thrown
          THEN /\ loc' = [loc EXCEPT !["depth"].threw = TRUE]
               /\ Goto("depth", "d_ret")
          ELSE /\ loc' = [loc EXCEPT !["depth"].i = d.i + NumLocks]
               /\ Goto("depth", "d_loop")
    /\ UNCHANGED <<htVars, lastOp, nOps>>

\* ~VisitorTracker at the end of visitDepth
VisitDepthReturn ==
    /\ pc["depth"] = "d_ret"
    /\ visitors' = visitors - 1
    /\ loc' = [loc EXCEPT !["depth"] =
                   [InitLocals("depth") EXCEPT !.calls = loc["depth"].calls + 1]]
    /\ Goto("depth", "idle")
    /\ UNCHANGED <<values, size, activeState, valueStats, stats, numEjects,
                   numResizes, maxDeletedRevSeqno, lastOp, nOps, mutexes>>

\* resize(newSize) lines 217-231: the checks made before any mutex is taken
ResizeBegin ==
    /\ pc["resizer"] = "idle"
    /\ numResizes < MaxResizes
    /\ \E newSize \in Sizes :
          LET r == loc["resizer"]
              r1 == [r EXCEPT !.newSize = newSize, !.k = 0,
                              !.numResizes0 = numResizes]
          IN
          IF ~activeState
          THEN /\ loc' = [loc EXCEPT !["resizer"] =
                              [r1 EXCEPT !.result = "logic_error"]]
               /\ UNCHANGED pc
          ELSE IF newSize > INT_MAX \/ newSize = size
          THEN /\ loc' = [loc EXCEPT !["resizer"] =
                              [r1 EXCEPT !.result = "same_size"]]
               /\ UNCHANGED pc
          ELSE /\ loc' = [loc EXCEPT !["resizer"] =
                              [r1 EXCEPT !.result = "none"]]
               /\ Goto("resizer", "r_lock")
    /\ UNCHANGED <<htVars, lastOp, nOps, mutexes>>

\* ResizeLock that takes the first mutex only
ResizeLock_firstMutexOnly ==
    LET r == loc["resizer"] IN
    /\ pc["resizer"] = "r_lock"
    /\ Acquire(r.k, "resizer")
    /\ loc' = [loc EXCEPT !["resizer"].k = r.k + 1]
    /\ Goto("resizer", "r_check")
    /\ UNCHANGED <<htVars, lastOp, nOps>>

\* resize(newSize) line 236, MultiLockHolder mlh(mutexes): the mutexes are
\* taken one by one in the order 0 .. L-1.
ResizeLock ==
    LET r == loc["resizer"] IN
    /\ pc["resizer"] = "r_lock"
    /\ Acquire(r.k, "resizer")
    /\ loc' = [loc EXCEPT !["resizer"].k = r.k + 1]
    /\ Goto("resizer", IF r.k + 1 = NumLocks THEN "r_check" ELSE "r_lock")
    /\ UNCHANGED <<htVars, lastOp, nOps>>

\* ResizeCheck without the test of visitors
ResizeCheck_ignoresVisitors ==
    LET r == loc["resizer"] IN
    /\ pc["resizer"] = "r_check"
    /\ Becomes(resizeStoreSize(HT, r.newSize))
    /\ loc' = [loc EXCEPT !["resizer"].oldSize = size]
    /\ Goto("resizer", "r_move")
    /\ UNCHANGED <<lastOp, nOps, mutexes>>

\* resize(newSize) lines 237-253: with all mutexes held, give up if a
\* visitor is in flight; otherwise count the resize and store the new size.
ResizeCheck ==
    LET r == loc["resizer"] IN
    /\ pc["resizer"] = "r_check"
    /\ IF visitors > 0
       THEN /\ loc' = [loc EXCEPT !["resizer"].result = "visitors",
                                  !["resizer"].deferred = TRUE]
            /\ Goto("resizer", "r_unlock")
            /\ UNCHANGED htVars
       ELSE /\ Becomes(resizeStoreSize(HT, r.newSize))
            /\ loc' = [loc EXCEPT !["resizer"].oldSize = size]
            /\ Goto("resizer", "r_move")
    /\ UNCHANGED <<lastOp, nOps, mutexes>>

\* resize(newSize) lines 255-272: the records are moved and the new vector
\* assigned to values.
ResizeMove ==
    LET r == loc["resizer"] IN
    /\ pc["resizer"] = "r_move"
    /\ Becomes(resizeMoveRecords(HT, r.oldSize))
    /\ loc' = [loc EXCEPT !["resizer"].result = "resized",
                          !["visitor"].resized =
                              @ \/ (loc["visitor"].scanning
                                      /\ pc["visitor"] \notin {"done", "aborted"})]
    /\ Goto("resizer", "r_unlock")
    /\ UNCHANGED <<lastOp, nOps, mutexes>>

\* ~MultiLockHolder: all mutexes are released when resize returns
ResizeUnlock ==
    /\ pc["resizer"] = "r_unlock"
    /\ mutexes' = [l \in DOMAIN mutexes |-> "free"]
    /\ Goto("resizer", "idle")
    /\ UNCHANGED <<htVars, lastOp, nOps, loc>>

\* HashTable::getLockedBucket(key) as called by findInner (line 281): the
\* bucket of the key under the current size, with its stripe mutex held.
getLockedBucket(h, k) ==
    [bucket |-> getBucketForHash(h, Hash(k)),
     mutex |-> getBucketForHash(h, Hash(k)) % NumLocks]

\* set(val) up to the return of getLockedBucket in findInner
SetLock ==
    /\ pc["writer"] = "idle"
    /\ loc["writer"].n < MaxWrites
    /\ activeState
    /\ \E k \in Keys :
          LET hbl == getLockedBucket(HT, k) IN
          /\ Acquire(hbl.mutex, "writer")
          /\ loc' = [loc EXCEPT !["writer"] =
                         [itm |-> Item(k, 1, CommittedViaMutation, FALSE,
                                       NotTemp),
                          bucket |-> hbl.bucket, n |-> @.n + 1]]
    /\ Goto("writer", "w_locked")
    /\ UNCHANGED <<htVars, lastOp, nOps>>

\* set(val) from the chain scan of findInner to the release of the bucket's
\* mutex when the FindResult goes out of scope.
SetLocked ==
    LET w == loc["writer"] IN
    /\ pc["writer"] = "w_locked"
    /\ \E inc \in {0, 1} : Becomes(set(HT, w.itm, inc).h)
    /\ Release(w.bucket % NumLocks)
    /\ Goto("writer", "idle")
    /\ UNCHANGED <<lastOp, nOps, loc>>

NextConc ==
    \/ PRVBegin
    \/ PRVLock0
    \/ PRVTrack
    \/ PRVOuter
    \/ PRVInner
    \/ PRVChain
    \/ PRVThrow
    \/ PRVReturn
    \/ VisitDepthBegin
    \/ VisitDepthLock0
    \/ VisitDepthTrack
    \/ VisitDepthLoop
    \/ VisitDepthVisit
    \/ VisitDepthReturn
    \/ ResizeBegin
    \/ ResizeLock
    \/ ResizeCheck
    \/ ResizeMove
    \/ ResizeUnlock
    \/ SetLock
    \/ SetLocked

SpecConc == Init /\ [][NextConc]_vars

(***************************************************************************)
(* SpecTeardown: the depth visitor, the resizer and the writer of SpecConc,  *)
(* a thread calling clear and the thread that destroys the table.           *)
(***************************************************************************)
\* The buckets whose chain thread t is reading or modifying where it stands
Touches(t) ==
    CASE t = "visitor" ->
             IF pc[t] = "v_chain"
             THEN {loc[t].hash_bucket} \cap DOMAIN values ELSE {}
      [] t = "depth" ->
             IF pc[t] = "d_visit" THEN {loc[t].i} \cap DOMAIN values ELSE {}
      [] t = "resizer" -> IF pc[t] = "r_move" THEN DOMAIN values ELSE {}
      [] t = "writer" -> IF pc[t] = "w_locked" THEN {loc[t].bucket} ELSE {}
      [] t = "clearer" -> IF pc[t] = "c_clear" THEN DOMAIN values ELSE {}
      [] t = "destroyer" -> IF pc[t] = "x_clear" THEN DOMAIN values ELSE {}
      [] t \in {"setter1", "setter2"} ->
             IF pc[t] \in {"s_find", "s_store"} THEN {loc[t].bucket} ELSE {}
      [] t = "sampler" ->
             IF pc[t] = "k_scan" THEN {loc[t].slot} \cap DOMAIN values ELSE {}

\* clear(deactivate) lines 138-144: clear without deactivate throws on an
\* inactive table before any mutex is taken
ClearBegin ==
    /\ pc["clearer"] = "idle"
    /\ loc["clearer"].n < MaxClears
    /\ \E deactivate \in BOOLEAN :
          LET c == [loc["clearer"] EXCEPT !.deactivate = deactivate, !.k = 0,
                                          !.n = @ + 1]
          IN
          IF ~deactivate /\ ~activeState
          THEN /\ loc' = [loc EXCEPT !["clearer"] =
                              [c EXCEPT !.result = "logic_error"]]
               /\ UNCHANGED pc
          ELSE /\ loc' = [loc EXCEPT !["clearer"] = [c EXCEPT !.result = "none"]]
               /\ Goto("clearer", "c_lock")
    /\ UNCHANGED <<htVars, lastOp, nOps, mutexes>>

\* ClearLock taking the mutexes in the order L-1 .. 0
ClearLock_reverseOrder ==
    LET c == loc["clearer"] IN
    /\ pc["clearer"] = "c_lock"
    /\ Acquire(NumLocks - 1 - c.k, "clearer")
    /\ loc' = [loc EXCEPT !["clearer"].k = c.k + 1]
    /\ Goto("clearer", IF c.k + 1 = NumLocks THEN "c_clear" ELSE "c_lock")
    /\ UNCHANGED <<htVars, lastOp, nOps>>

\* clear line 145, MultiLockHolder mlh(mutexes): the mutexes are taken one by
\* one in the order 0 .. L-1.
ClearLock ==
    LET c == loc["clearer"] IN
    /\ pc["clearer"] = "c_lock"
    /\ Acquire(c.k, "clearer")
    /\ loc' = [loc EXCEPT !["clearer"].k = c.k + 1]
    /\ Goto("clearer", IF c.k + 1 = NumLocks THEN "c_clear" ELSE "c_lock")
    /\ UNCHANGED <<htVars, lastOp, nOps>>

\* clear line 146: clear_UNLOCKED(deactivate) with every mutex held
ClearLocked ==
    /\ pc["clearer"] = "c_clear"
    /\ Becomes(clear_UNLOCKED(HT, loc["clearer"].deactivate))
    /\ loc' = [loc EXCEPT !["clearer"].result = "cleared"]
    /\ Goto("clearer", "c_unlock")
    /\ UNCHANGED <<lastOp, nOps, mutexes>>

\* ~MultiLockHolder at the end of clear
ClearUnlock ==
    /\ pc["clearer"] = "c_unlock"
    /\ mutexes' = [l \in DOMAIN mutexes |-> "free"]
    /\ Goto("clearer", "idle")
    /\ UNCHANGED <<htVars, lastOp, nOps, loc>>

\* ~HashTable() is entered: clear_UNLOCKED(true) is about to run, and the
\* destructor takes no mutex (lines 121-123).
DtorBegin ==
    /\ pc["destroyer"] = "idle"
    /\ Goto("destroyer", "x_clear")
    /\ UNCHANGED <<htVars, lastOp, nOps, mutexes, loc>>

\* ~HashTable() line 123: clear_UNLOCKED(true). A chain that another thread
\* is working on at this moment is written by two threads at once, a data
\* race: the chain is left cleared or as the other thread had it. While a
\* resize has stored the new size and not yet the new vector, the vector is
\* cleared over its own length.
DtorClear ==
    LET n == Cardinality(DOMAIN values)
        h == [clear_UNLOCKED([HT EXCEPT !.size = n], TRUE) EXCEPT !.size = size]
        raced == {b \in DOMAIN values :
                     \E t \in Threads \ {"destroyer"} : b \in Touches(t)}
    IN
    /\ pc["destroyer"] = "x_clear"
    /\ \E kept \in BOOLEAN :
          Becomes([h EXCEPT !.values =
                       [b \in DOMAIN values |->
                            IF kept /\ b \in raced THEN values[b]
                            ELSE h.values[b]]])
    /\ loc' = [loc EXCEPT !["destroyer"].raced = (raced # {})]
    /\ Goto("destroyer", "x_wait")
    /\ UNCHANGED <<lastOp, nOps, mutexes>>

\* ~HashTable() lines 125-127: wait until no visitor is in flight
DtorWait ==
    /\ pc["destroyer"] = "x_wait"
    /\ visitors = 0
    /\ Goto("destroyer", "done")
    /\ UNCHANGED <<htVars, lastOp, nOps, mutexes, loc>>

NextTeardown ==
    \/ VisitDepthBegin
    \/ VisitDepthLock0
    \/ VisitDepthTrack
    \/ VisitDepthLoop
    \/ VisitDepthVisit
    \/ VisitDepthReturn
    \/ ResizeBegin
    \/ ResizeLock
    \/ ResizeCheck
    \/ ResizeMove
    \/ ResizeUnlock
    \/ SetLock
    \/ SetLocked
    \/ ClearBegin
    \/ ClearLock
    \/ ClearLocked
    \/ ClearUnlock
    \/ DtorBegin
    \/ DtorClear
    \/ DtorWait

SpecTeardown == Init /\ [][NextTeardown]_vars

(***************************************************************************)
(* SpecSet: two front-end threads that each call set once, and the resizer. *)
(* set runs in three steps: the bucket's mutex is taken, the chain is       *)
(* searched, the entry is updated or added and the mutex released.          *)
(***************************************************************************)
Setters == {"setter1", "setter2"}

\* The item each setter stores: its own value, for a key of its choice
SetterItem(t, k) ==
    Item(k, IF t = "setter1" THEN 1 ELSE MaxVer, CommittedViaMutation, FALSE,
         NotTemp)

\* SetterLock without the mutex
SetterLock_noMutex(t) ==
    /\ pc[t] = "idle"
    /\ loc[t].n = 0
    /\ activeState
    /\ \E k \in Keys :
          LET hbl == getLockedBucket(HT, k) IN
          loc' = [loc EXCEPT ![t] = [@ EXCEPT !.itm = SetterItem(t, k),
                                              !.bucket = hbl.bucket]]
    /\ Goto(t, "s_find")
    /\ UNCHANGED <<htVars, lastOp, nOps, mutexes>>

\* set -> findForWrite -> findInner line 281: getLockedBucket(key)
SetterLock(t) ==
    /\ pc[t] = "idle"
    /\ loc[t].n = 0
    /\ activeState
    /\ \E k \in Keys :
          LET hbl == getLockedBucket(HT, k) IN
          /\ Acquire(hbl.mutex, t)
          /\ loc' = [loc EXCEPT ![t] = [@ EXCEPT !.itm = SetterItem(t, k),
                                                 !.bucket = hbl.bucket]]
    /\ Goto(t, "s_find")
    /\ UNCHANGED <<htVars, lastOp, nOps>>

\* findInner lines 282-299 and findForWrite lines 618-644: the chain is
\* searched for the key and the entry to write is returned.
SetterFind(t) ==
    /\ pc[t] = "s_find"
    /\ loc' = [loc EXCEPT ![t].found =
                   findForWrite(HT, loc[t].itm.key, TRUE).storedValue]
    /\ Goto(t, "s_store")
    /\ UNCHANGED <<htVars, lastOp, nOps, mutexes>>

\* set lines 320-326: the entry found is updated, or a new one is added; the
\* mutex is released when the FindResult goes out of scope.
SetterStore(t) ==
    LET w == loc[t] IN
    /\ pc[t] = "s_store"
    /\ \E inc \in {0, 1} :
          \E r \in {IF w.found # 0
                     THEN unlocked_updateStoredValue(HT, w.bucket, w.found,
                                                     w.itm, inc)
                     ELSE unlocked_addNewStoredValue(HT, w.bucket, w.itm)} :
              Becomes(r.h)
    /\ Release(w.bucket % NumLocks)
    /\ loc' = [loc EXCEPT ![t].n = 1]
    /\ Goto(t, "idle")
    /\ UNCHANGED <<lastOp, nOps>>

NextSet ==
    \/ \E t \in Setters : SetterLock(t)
    \/ \E t \in Setters : SetterFind(t)
    \/ \E t \in Setters : SetterStore(t)
    \/ ResizeBegin
    \/ ResizeLock
    \/ ResizeCheck
    \/ ResizeMove
    \/ ResizeUnlock

SpecSet == Init /\ [][NextSet]_vars

(***************************************************************************)
(* SpecLive: the depth visitor, the resizer, the writer and the clearer     *)
(* under fair scheduling. A call that has started goes on: a thread whose   *)
(* next step is possible again and again eventually takes it (a mutex that  *)
(* is released again and again is eventually handed to a waiting thread).   *)
(* Nothing forces a visitor, the resizer or the clearer to start a call;    *)
(* the writer goes on until it has made its MaxWrites calls.                *)
(***************************************************************************)
DepthRun ==
    \/ VisitDepthLock0
    \/ VisitDepthTrack
    \/ VisitDepthLoop
    \/ VisitDepthVisit
    \/ VisitDepthReturn

ResizerRun ==
    \/ ResizeLock
    \/ ResizeCheck
    \/ ResizeMove
    \/ ResizeUnlock

ClearerRun ==
    \/ ClearLock
    \/ ClearLocked
    \/ ClearUnlock

NextLive ==
    \/ VisitDepthBegin
    \/ DepthRun
    \/ ResizeBegin
    \/ ResizerRun
    \/ ClearBegin
    \/ ClearerRun
    \/ SetLock
    \/ SetLocked

\* The last conjunct is the fairness of SetLocked, which is possible exactly
\* at w_locked and leaves it.
SpecLive ==
    /\ Init
    /\ [][NextLive]_vars
    /\ SF_vars(DepthRun)
    /\ SF_vars(ResizerRun)
    /\ SF_vars(ClearerRun)
    /\ SF_vars(SetLock)
    /\ []<>(pc["writer"] # "w_locked")

(***************************************************************************)
(* SpecRandom: a thread calling getRandomKey, the resizer and the writer.    *)
(* getRandomKey reads size without a mutex (lines 304 and 309) and takes the *)
(* mutex of one slot at a time in getRandomKeyFromSlot.                      *)
(***************************************************************************)
\* getRandomKey lines 304-306: size_t start = rnd % size; size_t curr = start
RandomKeyStart ==
    /\ pc["sampler"] = "idle"
    /\ loc["sampler"].n < MaxSamples
    /\ \E rnd \in 0..MaxRnd :
          loc' = [loc EXCEPT !["sampler"] =
                      [InitLocals("sampler") EXCEPT !.start = rnd % size,
                                                    !.curr = rnd % size,
                                                    !.n = loc["sampler"].n + 1]]
    /\ Goto("sampler", "k_lock")
    /\ UNCHANGED <<htVars, lastOp, nOps, mutexes>>

\* getRandomKey line 309, getRandomKeyFromSlot(curr++), and line 1000,
\* auto lh = getLockedBucket(slot): the mutex of the slot, taken as a hash
\* value, is acquired.
RandomKeySlotLock ==
    LET s == loc["sampler"]
        hbl == getBucketForHash(HT, s.curr) % NumLocks
    IN
    /\ pc["sampler"] = "k_lock"
    /\ Acquire(hbl, "sampler")
    /\ loc' = [loc EXCEPT !["sampler"].slot = s.curr,
                          !["sampler"].curr = s.curr + 1,
                          !["sampler"].mutex = hbl]
    /\ Goto("sampler", "k_scan")
    /\ UNCHANGED <<htVars, lastOp, nOps>>

\* getRandomKeyFromSlot lines 1001-1009: the chain values[slot] is walked
\* under the mutex. values[slot] with slot beyond the vector is undefined
\* behaviour: the read faults, or yields a chain of garbage that holds an
\* eligible entry or none.
RandomKeySlotScan ==
    LET s == loc["sampler"] IN
    /\ pc["sampler"] = "k_scan"
    /\ IF s.slot \in DOMAIN values
       THEN LET i == getRandomKeyFromSlot(HT, s.slot) IN
            /\ loc' = [loc EXCEPT !["sampler"].ret =
                           IF i = 0 THEN 0 ELSE values[s.slot][i].key]
            /\ Goto("sampler", "k_next")
       ELSE \E outcome \in {"fault", "nullptr", "item"} :
               /\ loc' = [loc EXCEPT !["sampler"].outOfRange = TRUE,
                                     !["sampler"].ret =
                                         IF outcome = "item" THEN -1 ELSE 0]
               /\ Goto("sampler",
                       IF outcome = "fault" THEN "crashed" ELSE "k_next")
    /\ Release(s.mutex)
    /\ UNCHANGED <<htVars, lastOp, nOps>>

\* getRandomKey lines 310-313: curr wraps at size, and the loop goes on while
\* nothing was found and curr is not back at start.
RandomKeyNext ==
    LET s == loc["sampler"]
        curr == IF s.curr = size THEN 0 ELSE s.curr
    IN
    /\ pc["sampler"] = "k_next"
    /\ curr <= MaxCurr
    /\ loc' = [loc EXCEPT !["sampler"].curr = curr]
    /\ Goto("sampler", IF s.ret = 0 /\ curr # s.start THEN "k_lock" ELSE "idle")
    /\ UNCHANGED <<htVars, lastOp, nOps, mutexes>>

NextRandom ==
    \/ RandomKeyStart
    \/ RandomKeySlotLock
    \/ RandomKeySlotScan
    \/ RandomKeyNext
    \/ ResizeBegin
    \/ ResizeLock
    \/ ResizeCheck
    \/ ResizeMove
    \/ ResizeUnlock
    \/ SetLock
    \/ SetLocked

SpecRandom == Init /\ [][NextRandom]_vars

(***************************************************************************)
(* Properties of Spec                                                      *)
(***************************************************************************)
\* Entries of chain b with key k in the committed (pend = FALSE) or pending
\* (pend = TRUE) phase.
Matching(b, k, pend) ==
    {i \in 1..Len(values[b]) :
         hasKey(values[b][i], k) /\ isPending(values[b][i]) = pend}

\* All stored values linked in the table
Linked == {values[e[1]][e[2]] : e \in Entries(HT)}

\* Number of linked entries that satisfy P
Count(P(_)) == Cardinality({e \in Entries(HT) : P(values[e[1]][e[2]])})

\* C1: after any sequence of operations every chain holds, for each key, at
\* most one committed entry and at most one pending entry (the two
\* assertions of findInner never fail).
C1_OneCommittedOnePending ==
    \A b \in DOMAIN values, k \in Keys :
        /\ Cardinality(Matching(b, k, FALSE)) <= 1
        /\ Cardinality(Matching(b, k, TRUE)) <= 1

\* C2: every entry linked in chain b has hash(key) mod size = b, the bucket
\* vector has size buckets, and findInner (hence findOnlyCommitted) looks for
\* a key in the bucket where its committed entry is linked.
C2_EntryInItsBucket ==
    /\ DOMAIN values = 0..(size - 1)
    /\ \A e \in Entries(HT) :
           LET v == values[e[1]][e[2]] IN
           /\ Hash(v.key) % size = e[1]
           /\ findInner(HT, v.key).bucket = e[1]
           /\ ~isPending(v) => findInner(HT, v.key).committedSV # 0

\* C2 witness: a resize took effect and moved two colliding keys to
\* different buckets.
C2_Witness ==
    /\ lastOp.op = "resize" /\ lastOp.status = "resized"
    /\ size = prime_size_table[2]
    /\ \E e1, e2 \in Entries(HT) : e1[1] # e2[1]

\* C3: num_items counts the non-temp entries, num_temp_items the temp
\* entries, num_non_resident_items the entries that are not resident, not
\* deleted and not temp.
C3_ItemCounts ==
    /\ valueStats.numItems = Count(LAMBDA v : ~isTempItem(v))
    /\ valueStats.numTempItems = Count(LAMBDA v : isTempItem(v))
    /\ valueStats.numNonResidentItems =
           Count(LAMBDA v : ~v.resident /\ ~v.deleted /\ ~isTempItem(v))

\* C3 witness: after an entry was released, the table holds a temp entry and
\* a non-resident entry.
C3_Witness ==
    /\ lastOp.op \in {"delKey", "delPtr", "ejectItem"}
    /\ lastOp.status \in {"ok", "true"}
    /\ valueStats.numItems > 0
    /\ valueStats.numNonResidentItems + valueStats.numTempItems > 0

\* C4: num_deleted_items counts the linked entries that are deleted, not
\* system and not pending; num_prepared_sync_writes the pending entries;
\* num_system_items the system-collection entries; also after clear.
C4_CategoryCounts ==
    /\ valueStats.numDeletedItems =
           Count(LAMBDA v : v.deleted /\ ~isSystem(v.key) /\ ~isPending(v))
    /\ valueStats.numPreparedSyncWrites = Count(LAMBDA v : isPending(v))
    /\ valueStats.numSystemItems = Count(LAMBDA v : isSystem(v.key))

\* C9: clear(deactivate=false) on an active table leaves every chain empty,
\* num_items = 0, mem_size = 0 and the table active; on an inactive table it
\* throws a logic error (and changes nothing).
C9_Clear ==
    [][(lastOp'.op = "clear" /\ lastOp'.arg = FALSE) =>
          IF activeState
          THEN /\ lastOp'.status = "ok"
               /\ \A b \in DOMAIN values' : values'[b] = <<>>
               /\ valueStats'.numItems = 0
               /\ valueStats'.memSize = 0
               /\ activeState'
          ELSE /\ lastOp'.status = "logic_error"
               /\ UNCHANGED htVars]_vars

\* C9 witness: clear(false) ran on a table that held entries (the metadata
\* counter, which reset() leaves alone, still shows them).
C9_Witness ==
    /\ lastOp.op = "clear" /\ lastOp.arg = FALSE /\ lastOp.status = "ok"
    /\ valueStats.metaDataMemory > 1

\* The multiset of (key, cas, committed_state) over all chains
TupleBag(vals) ==
    [t \in Keys \X (0..MaxVer) \X CommittedState |->
        Cardinality({e \in (DOMAIN vals) \X (1..MaxChain + 2) :
                        /\ e[2] <= Len(vals[e[1]])
                        /\ vals[e[1]][e[2]].key = t[1]
                        /\ vals[e[1]][e[2]].cas = t[2]
                        /\ vals[e[1]][e[2]].committed = t[3]})]

\* C10: a resize that takes effect keeps the multiset of (key, cas,
\* committed_state) and every counter other than num_resizes and the memory
\* overhead.
C10_ResizeFrame ==
    [][(lastOp'.op = "resize" /\ lastOp'.status = "resized") =>
          /\ TupleBag(values') = TupleBag(values)
          /\ valueStats' = valueStats
          /\ numEjects' = numEjects
          /\ maxDeletedRevSeqno' = maxDeletedRevSeqno
          /\ activeState' = activeState /\ visitors' = visitors
          /\ stats'.numValueEjects = stats.numValueEjects
          /\ stats'.numFailedEjects = stats.numFailedEjects
          /\ stats'.currentSize = stats.currentSize
          /\ numResizes' = numResizes + 1]_vars

\* C10 witness: a resize took effect on a table with a chain of two entries.
C10_Witness ==
    /\ lastOp.op = "resize" /\ lastOp.status = "resized"
    /\ \E b \in DOMAIN values : Len(values[b]) >= 2

(***************************************************************************)
(* Properties of SpecConc                                                  *)
(***************************************************************************)
\* A step of thread t
StepOf(t) == pc'[t] # pc[t] \/ loc'[t] # loc[t]

\* C5: a resize(newSize) that sees visitors > 0 after taking all mutexes is
\* a no-op: that step and the release of the mutexes change neither size nor
\* the bucket vector nor any chain nor numResizes, and the only steps of
\* resize that change the table are those of a call that saw no visitor.
C5_DeferredResizeIsNoOp ==
    [][/\ (pc["resizer"] = "r_check" /\ visitors > 0 /\ StepOf("resizer"))
              => /\ UNCHANGED htVars
                 /\ pc'["resizer"] = "r_unlock"
                 /\ loc'["resizer"].result = "visitors"
       /\ (pc["resizer"] = "r_unlock" /\ StepOf("resizer"))
              => UNCHANGED htVars
       /\ (StepOf("resizer") /\ loc'["resizer"].result = "visitors")
              => UNCHANGED htVars]_vars

\* C5 witness: a resize gave up because a visitor was in flight, and is
\* about to release the mutexes.
C5_Witness ==
    /\ pc["resizer"] = "r_unlock"
    /\ loc["resizer"].result = "visitors"
    /\ visitors > 0

\* C6: while a visitor is registered (visitors > 0) neither size nor the
\* bucket vector's length changes, and every bucket whose chain a visitor
\* walks is a bucket of the table, guarded by the mutex the visitor holds.
C6_NoResizeUnderVisitor ==
    [][/\ visitors > 0 =>
              (size' = size /\ DOMAIN values' = DOMAIN values)
       /\ pc["visitor"] = "v_chain" =>
              /\ loc["visitor"].hash_bucket \in DOMAIN values
              /\ loc["visitor"].hash_bucket < size
              /\ loc["visitor"].hash_bucket % NumLocks = loc["visitor"].lock
              /\ mutexes[loc["visitor"].lock] = "visitor"
       /\ pc["depth"] = "d_visit" =>
              /\ loc["depth"].i \in DOMAIN values
              /\ loc["depth"].i % NumLocks = loc["depth"].l
              /\ mutexes[loc["depth"].l] = "depth"]_vars

\* C6 witness: a visitor is walking a chain after a resize has taken effect,
\* while the resizer waits for a mutex.
C6_Witness ==
    /\ pc["visitor"] = "v_chain"
    /\ numResizes > 0
    /\ pc["resizer"] = "r_lock"

\* The scan of the visitor thread is over: a call returned endPosition().
ScanDone == pc["visitor"] = "done" /\ loc["visitor"].scanning

\* C7 as claimed: when the scan is over and no resize took effect during it,
\* every entry present before the scan was visited exactly once.
C7_VisitedExactlyOnce ==
    (ScanDone /\ ~loc["visitor"].resized) =>
        \A k \in loc["visitor"].present0 : loc["visitor"].visited[k] = 1

\* C7 as amended: at any time of a scan during which no resize took effect,
\* no entry was visited more than once; and when the scan is over, every
\* entry present before it was visited exactly once unless the visitor
\* paused before the last entry of some chain (the rest of that chain is
\* skipped: the next call starts at the next bucket).
C7_VisitedAtMostOnce ==
    ~loc["visitor"].resized =>
        /\ \A k \in Keys : loc["visitor"].visited[k] <= 1
        /\ (ScanDone /\ ~loc["visitor"].midPause) =>
               \A k \in loc["visitor"].present0 :
                   loc["visitor"].visited[k] = 1

\* C7 witness: a scan that paused (only at the end of chains) is over; two
\* entries were present before it, and a key was inserted during it.
C7_Witness ==
    /\ ScanDone
    /\ ~loc["visitor"].resized /\ ~loc["visitor"].midPause
    /\ loc["visitor"].start_pos.ht_size = size
    /\ Cardinality(loc["visitor"].present0) >= 1
    /\ LinkedKeys # loc["visitor"].present0
    /\ loc["visitor"].calls >= 2

\* C8: a resize deferred by a visitor is only deferred: a resize call that
\* finds no visitor once it holds all mutexes stores the new size, and ends
\* with size = newSize, a bucket vector of newSize buckets and numResizes
\* one above its value at the call.
C8_ResizeAfterVisitors ==
    [][/\ (pc["resizer"] = "r_check" /\ visitors = 0 /\ StepOf("resizer"))
              => /\ pc'["resizer"] = "r_move"
                 /\ size' = loc["resizer"].newSize
       /\ (pc["resizer"] = "r_move" /\ StepOf("resizer"))
              => /\ loc'["resizer"].result = "resized"
                 /\ size' = loc["resizer"].newSize
                 /\ DOMAIN values' = 0..(loc["resizer"].newSize - 1)
                 /\ numResizes' = loc["resizer"].numResizes0 + 1
       /\ (pc["resizer"] = "r_unlock" /\ loc["resizer"].result = "resized")
              => /\ size = loc["resizer"].newSize
                 /\ numResizes = loc["resizer"].numResizes0 + 1]_vars

\* C8 witness: the resizer was deferred by a visitor earlier, and its
\* current call, made with no visitor in flight, has resized the table.
C8_Witness ==
    /\ pc["resizer"] = "r_unlock"
    /\ loc["resizer"].result = "resized"
    /\ loc["resizer"].deferred
    /\ visitors = 0

(***************************************************************************)
(* Properties of Spec: lookups, round trips, the active flag               *)
(***************************************************************************)
\* The entry a lookup of key k returned at index i (i # 0)
Returned(k, i) == values[getBucketForHash(HT, Hash(k))][i]

\* findForRead has just returned for a key whose committed item, stored by
\* set, was not touched since (only lookups, resizes and calls on other
\* keys came in between).
ReadAfterSet ==
    /\ lastOp.op = "findForRead" /\ lastOp.status = "ok"
    /\ lastOp.written[lastOp.key].valid

SameCounters(h1, h2) ==
    /\ h1.valueStats = h2.valueStats
    /\ h1.stats = h2.stats
    /\ h1.numEjects = h2.numEjects
    /\ h1.numResizes = h2.numResizes
    /\ h1.maxDeletedRevSeqno = h2.maxDeletedRevSeqno
    /\ NumLinked(h1) = NumLinked(h2)

\* C12: once set(item) has run (on any table, with any result), a second
\* and a third set of the same item leave every counter and the number of
\* linked entries as the first call left them, and return the same status
\* as each other.
C12_SetIdempotent ==
    lastOp.op = "set" =>
        \A inc2, inc3 \in {0, 1} :
            LET second == set(HT, lastOp.arg, inc2)
                third == set(second.h, lastOp.arg, inc3)
            IN  /\ SameCounters(second.h, HT)
                /\ SameCounters(third.h, second.h)
                /\ third.status = second.status

\* C12 witness: set stored a committed item as a new entry beside another
\* entry; the second set of the item updates that entry in place (its
\* frequency counter moves) and reports it dirty.
C12_Witness ==
    /\ lastOp.op = "set" /\ lastOp.status = "WasClean"
    /\ itmIsCommitted(lastOp.arg)
    /\ valueStats.numItems = 2
    /\ set(HT, lastOp.arg, 1).status = "WasDirty"
    /\ set(HT, lastOp.arg, 1).h.values # values

\* set is called with a Pending item for lastOp'.key on an active table
\* where the key has one committed entry and no pending entry.
PrepareOverCommitted ==
    /\ lastOp'.op = "set" /\ itmIsPending(lastOp'.arg)
    /\ findInner(HT, lastOp'.key).status = "ok"
    /\ findInner(HT, lastOp'.key).committedSV # 0
    /\ findInner(HT, lastOp'.key).pendingSV = 0

\* What C13 says of the new entry and of findForWrite and findForCommit:
\* one entry more is linked, the chain holds the committed entry (as it was)
\* and the new pending entry, findForWrite returns the pending entry and
\* findForCommit both.
PrepareLinked ==
    LET k == lastOp'.key
        old == findInner(HT, k)
        new == findInner(HT', k)
        b == new.bucket
    IN  /\ lastOp'.status = "WasClean"
        /\ NumLinked(HT') = NumLinked(HT) + 1
        /\ new.status = "ok" /\ new.committedSV # 0 /\ new.pendingSV # 0
        /\ Cardinality({i \in 1..Len(values'[b]) : hasKey(values'[b][i], k)}) = 2
        /\ values'[b][new.committedSV] = values[old.bucket][old.committedSV]
        /\ values'[b][new.pendingSV] = NewStoredValue(lastOp'.arg)
        /\ \A wantsDeleted \in BOOLEAN :
               findForWrite(HT', k, wantsDeleted).storedValue = new.pendingSV
        /\ findForCommit(HT', k).pending = new.pendingSV
        /\ findForCommit(HT', k).committed = new.committedSV

\* C13 as claimed: after such a set, findForRead returns the committed entry
\* (with its old value), findForWrite the pending entry, findForCommit both.
C13_PrepareBesideCommitted ==
    [][PrepareOverCommitted =>
          /\ PrepareLinked
          /\ \A trackReference, wantsDeleted \in BOOLEAN :
                 findForRead(HT', lastOp'.key, trackReference, wantsDeleted, 0).sv
                     = findInner(HT', lastOp'.key).committedSV]_vars

\* C13 as amended: findForRead returns the committed entry when that entry
\* is not deleted or wantsDeleted is Yes, and nullptr when the committed
\* entry is deleted and wantsDeleted is No; the rest as claimed.
C13_PrepareBesideLiveCommitted ==
    [][PrepareOverCommitted =>
          /\ PrepareLinked
          /\ \A trackReference, wantsDeleted \in BOOLEAN :
                 LET c == findInner(HT', lastOp'.key)
                 IN  findForRead(HT', lastOp'.key, trackReference,
                                 wantsDeleted, 0).sv
                         = IF values'[c.bucket][c.committedSV].deleted
                              /\ ~wantsDeleted
                           THEN 0 ELSE c.committedSV]_vars

\* C13 witness: set has linked a Pending entry beside the live committed
\* entry of its key.
C13_Witness ==
    /\ lastOp.op = "set" /\ itmIsPending(lastOp.arg)
    /\ lastOp.status = "WasClean"
    /\ findForCommit(HT, lastOp.key).pending # 0
    /\ findForCommit(HT, lastOp.key).committed # 0
    /\ ~Returned(lastOp.key, findForCommit(HT, lastOp.key).committed).deleted
    /\ Returned(lastOp.key, findForCommit(HT, lastOp.key).committed).value # 0

\* C14: for a key with a pending entry, findForRead returns that entry (and
\* leaves the table as it is) when the entry is PreparedMaybeVisible,
\* whatever else is linked, deleted or asked for; when the entry is Pending
\* it returns the committed entry or nullptr, never the pending entry. This
\* holds of findForRead on every reachable table and of the call that has
\* just returned.
C14_MaybeVisibleBlocksRead ==
    \A k \in Keys :
        LET f == findInner(HT, k)
            maybeVisible ==
                values[f.bucket][f.pendingSV].committed = PreparedMaybeVisible
        IN  (f.status = "ok" /\ f.pendingSV # 0) =>
            /\ \A trackReference, wantsDeleted \in BOOLEAN, inc \in {0, 1} :
                   LET r == findForRead(HT, k, trackReference, wantsDeleted,
                                        inc)
                   IN  IF maybeVisible
                       THEN r.sv = f.pendingSV /\ r.h = HT
                       ELSE r.sv \in {0, f.committedSV} \ {f.pendingSV}
            /\ (lastOp.op = "findForRead" /\ lastOp.key = k
                    /\ lastOp.status = "ok") =>
                   IF maybeVisible
                   THEN lastOp.sv = f.pendingSV
                   ELSE lastOp.sv \in {0, f.committedSV} \ {f.pendingSV}

\* C14 witness: findForRead, asked for deleted entries too, returned the
\* PreparedMaybeVisible entry of a key that also has a deleted committed
\* entry.
C14_Witness ==
    /\ lastOp.op = "findForRead" /\ lastOp.status = "ok"
    /\ lastOp.arg.wantsDeleted
    /\ lastOp.sv # 0
    /\ Returned(lastOp.key, lastOp.sv).committed = PreparedMaybeVisible
    /\ findInner(HT, lastOp.key).committedSV # 0
    /\ Returned(lastOp.key, findInner(HT, lastOp.key).committedSV).deleted


\* The item a background fetch brings back for entry v: v's own document
OriginalItem(v) ==
    [key |-> v.key, value |-> v.value, cas |-> v.cas, revSeqno |-> v.revSeqno,
     committed |-> v.committed, deleted |-> v.deleted, temp |-> NotTemp,
     comp |-> v.comp]

\* C15: value eviction round trip. In every reachable table, ejecting an
\* eligible resident committed entry with policy Value succeeds, leaves the
\* entry linked at its place but non-resident, raises numNonResidentItems by one
\* and keeps numItems; restoring the value from the original item then
\* succeeds, makes the entry resident and brings numNonResidentItems, memSize
\* and cacheSize back to their values before the eject.
C15_ValueEvictionRoundTrip ==
    \A e \in Entries(HT) :
        LET b == e[1]
            i == e[2]
            v == values[b][i]
            ej == unlocked_ejectItem(HT, b, i, "Value")
            r == unlocked_restoreValue(ej.h, b, i, OriginalItem(v))
        IN  (eligibleForEviction(v, "Value") /\ v.resident /\ ~isPending(v))
            => /\ ej.status = "true"
               /\ Len(ej.h.values[b]) = Len(values[b])
               /\ ej.h.values[b][i].key = v.key
               /\ ~ej.h.values[b][i].resident
               /\ ej.h.valueStats.numNonResidentItems =
                      valueStats.numNonResidentItems + 1
               /\ ej.h.valueStats.numItems = valueStats.numItems
               /\ r.status = "true"
               /\ r.h.values[b][i].resident
               /\ r.h.values[b][i].value = v.value
               /\ r.h.valueStats.numNonResidentItems =
                      valueStats.numNonResidentItems
               /\ r.h.valueStats.numItems = valueStats.numItems
               /\ r.h.valueStats.memSize = valueStats.memSize
               /\ r.h.valueStats.cacheSize = valueStats.cacheSize

\* A value eject has succeeded and left its entry linked and non-resident.
C15_Witness ==
    /\ lastOp.op = "ejectItem"
    /\ lastOp.arg.policy = "Value"
    /\ lastOp.status = "true"
    /\ lastOp.arg.e \in Entries(HT)
    /\ ~values[lastOp.arg.e[1]][lastOp.arg.e[2]].resident
    /\ valueStats.numNonResidentItems > 0


\* std::invalid_argument is a std::logic_error
LogicError(status) == status \in {"logic_error", "invalid_argument"}

\* The lookups, made on the table as it is
FindCalls ==
    {findForRead(HT, k, t, w, 0) : k \in Keys, t \in BOOLEAN, w \in BOOLEAN}
    \cup {Result(HT, findForWrite(HT, k, w).status, 0) :
              k \in Keys, w \in BOOLEAN}
    \cup {Result(HT, findForCommit(HT, k).status, 0) : k \in Keys}
    \cup {findOnlyCommitted(HT, k) : k \in Keys}
    \cup {findOnlyPrepared(HT, k) : k \in Keys}

\* The other calls that check the active flag and throw. The functions that
\* take an entry are given a stale reference (bucket b, place 1): they test
\* the flag before they touch the entry.
CheckedCalls ==
    {set(HT, itm, 0) : itm \in SetItems}
    \cup {insertFromWarmup(HT, itm, ej, md, "Value") :
              itm \in WarmupItems, ej \in BOOLEAN, md \in BOOLEAN}
    \cup {unlocked_addNewStoredValue(HT, b, itm) :
              b \in DOMAIN values, itm \in SetItems}
    \cup {unlocked_updateStoredValue(HT, b, 1, itm, 0) :
              b \in DOMAIN values, itm \in SetItems}
    \cup {unlocked_replaceByCopy(HT, b, 1) : b \in DOMAIN values}
    \cup {unlocked_del_key(HT, getBucketForHash(HT, Hash(k)), k) : k \in Keys}
    \cup {unlocked_del_ptr(HT, b, 1) : b \in DOMAIN values}
    \cup {unlocked_restoreMeta(HT, b, 1, itm) :
              b \in DOMAIN values, itm \in FetchedItems}
    \cup {resize(HT, n) : n \in Sizes}

\* The calls that test the active flag and return without an exception, and
\* getRandomKey, which does not test it.
QuietCalls ==
    {unlocked_restoreValue(HT, b, 1, itm) :
         b \in DOMAIN values, itm \in FetchedItems}
    \cup {pauseResumeVisit(HT), visitDepth(HT)}
    \cup {getRandomKey(HT, rnd) : rnd \in 0..MaxRnd}

C17_ChainUnderMutex ==
    \A t \in Threads : \A b \in Touches(t) :
        (t = "destroyer" => visitors > 0) => mutexes[b % NumLocks] = t


(***************************************************************************)
(* Properties of SpecLive                                                  *)
(***************************************************************************)
\* Thread t stands before the acquisition of a stripe mutex
AtLock(t) ==
    CASE t = "depth" ->
             \/ pc[t] = "d_lock0"
             \/ pc[t] = "d_loop" /\ loc[t].l < NumLocks /\ loc[t].i < size
      [] t = "resizer" -> pc[t] = "r_lock"
      [] t = "clearer" -> pc[t] = "c_lock"
      [] t = "writer" -> pc[t] = "idle" /\ loc[t].n < MaxWrites /\ activeState
      [] OTHER -> FALSE

\* The mutex thread t is about to take is held by another thread
Waits(t) ==
    /\ AtLock(t)
    /\ CASE t = "depth" ->
                mutexes[IF pc[t] = "d_lock0" THEN 0 ELSE loc[t].l] # "free"
         [] t = "resizer" -> mutexes[loc[t].k] # "free"
         [] t = "clearer" -> mutexes[loc[t].k] # "free"
         [] OTHER -> \A l \in DOMAIN mutexes : mutexes[l] # "free"

Stored(k) == {t \in Setters : loc[t].n = 1 /\ loc[t].itm.key = k}

\* The entries linked for key k anywhere in the table
EntriesOf(k) == {e \in Entries(HT) : values[e[1]][e[2]].key = k}

\* Each key has the single committed entry its completed sets ask for, with
\* the value of one of them, and never more than one entry.
OneEntryPerStoredKey ==
    \A k \in Keys :
        /\ Cardinality(EntriesOf(k)) <= 1
        /\ Stored(k) # {} =>
               \E e \in EntriesOf(k) :
                   /\ ~isPending(values[e[1]][e[2]])
                   /\ \E t \in Stored(k) :
                          values[e[1]][e[2]].value = loc[t].itm.value
        /\ (\A t \in Setters : loc[t].itm.key # k) => EntriesOf(k) = {}

\* A setter between its lookup and its write holds the mutex of its bucket
\* and finds the bucket where the key hashes.
SetterHoldsLock ==
    \A t \in Setters :
        pc[t] \in {"s_find", "s_store"} =>
            /\ mutexes[loc[t].bucket % NumLocks] = t
            /\ loc[t].bucket = getBucketForHash(HT, Hash(loc[t].itm.key))

\* While a setter is between its lookup and its write, a step of another
\* thread changes neither the chain of its bucket nor the size of the table.
SetterUninterrupted ==
    \A t \in Setters :
        (pc[t] \in {"s_find", "s_store"} /\ pc'[t] = pc[t])
            => /\ size' = size
               /\ DOMAIN values' = DOMAIN values
               /\ values'[loc[t].bucket] = values[loc[t].bucket]

distance(a, b) == (IF a > b THEN a ELSE b) - (IF a < b THEN a ELSE b)

\* hash_table.cc:176
nearest(n, a, b) == IF distance(n, a) < distance(b, n) THEN a ELSE b

\* isCurrently that knows only the upper candidate
isCurrently_onlyUpper(sz, a, b) == sz = b

\* hash_table.cc:180
isCurrently(sz, a, b) == sz = a \/ sz = b

\* resize() lines 191-194: the first index (from 1) whose prime is not
\* below target, or the index of the sentinel.
\* primeIndex without the walk through the table
primeIndex_noWalk(i, target) == i

RECURSIVE primeIndex(_, _)
primeIndex(i, target) ==
    IF prime_size_table[i] > 0 /\ prime_size_table[i] < target
    THEN primeIndex(i + 1, target)
    ELSE i

\* resize() lines 185-211: new_size for ni items in memory, the current
\* size sz and the initial size initSize.
resize_new_size(ni, sz, initSize) ==
    LET i == primeIndex(1, ni) IN
    IF prime_size_table[i] = -1
    THEN prime_size_table[i - 1]
    ELSE IF prime_size_table[i] < initSize
    THEN initSize
    ELSE IF i = 1
    THEN prime_size_table[i]
    ELSE IF isCurrently(sz, prime_size_table[i - 1], prime_size_table[i])
    THEN sz
    ELSE nearest(ni, prime_size_table[i - 1], prime_size_table[i])

\* Sizes taken from the prime table, and item counts: the small ones, and
\* those around the largest prime.
PrimeSizes == {prime_size_table[i] : i \in 1..MaxPrime}
LastPrime == prime_size_table[Len(prime_size_table) - 1]
ItemCounts == (0..MaxNi) \cup {LastPrime - 1, LastPrime, LastPrime + 1}

\* A table of some size, built with some initial size, holding ni items.
InitSize ==
    /\ Init!1 /\ Init!2 /\ Init!3 /\ Init!4 /\ Init!5 /\ Init!6 /\ Init!7
    /\ Init!8 /\ Init!9
    /\ \E ni \in ItemCounts : \E sz \in PrimeSizes : \E initSize \in PrimeSizes :
          lastOp = [NoOp EXCEPT !.op = "input",
                                !.arg = [ni |-> ni, size |-> sz,
                                         initialSize |-> initSize]]
    /\ nOps = 0
    /\ mutexes = [l \in 0..(NumLocks - 1) |-> "free"]
    /\ pc = [t \in Threads |-> "idle"]
    /\ loc = [t \in Threads |-> InitLocals(t)]

\* The size of the table: the one selected by the last resize(), which
\* resize(new_size) makes the size when no visitor is in flight (lines
\* 216-273).
CurSize == IF lastOp.op = "resize" THEN lastOp.sv ELSE lastOp.arg.size

\* Keys are stored or deleted between two calls of resize(): the number of
\* items in memory becomes any other count.
ChangeItems ==
    \E ni \in ItemCounts \ {lastOp.arg.ni} :
        /\ lastOp' = [lastOp EXCEPT !.op = "input", !.sv = 0, !.arg.ni = ni,
                                    !.arg.size = CurSize]
        /\ nOps' = 0
        /\ UNCHANGED <<htVars, mutexes, pc, loc>>

\* resize() up to line 211: new_size is selected; arg.size is the size
\* before the call, sv the size selected. In SpecSize nOps counts, up to 2,
\* the calls of resize() made since the number of items last changed.
ResizeSelect ==
    /\ lastOp.op \in {"input", "resize"}
    /\ lastOp' = [lastOp EXCEPT
                      !.op = "resize",
                      !.arg.size = CurSize,
                      !.sv = resize_new_size(lastOp.arg.ni, CurSize,
                                             lastOp.arg.initialSize)]
    /\ nOps' = IF nOps < 2 THEN nOps + 1 ELSE nOps
    /\ UNCHANGED <<htVars, mutexes, pc, loc>>

NextSize == ResizeSelect \/ ChangeItems

SpecSize == InitSize /\ [][NextSize]_vars

\* C20: for every number of items, every current size and every initial
\* size taken from the prime table, the size that resize() selects is not
\* smaller than the initial size.
C20_NotBelowInitialSize ==
    lastOp.op = "resize" => lastOp.sv >= lastOp.arg.initialSize

\* The primes that bracket ni in the prime table: the smallest prime not
\* below ni and the prime before it (one prime at either end of the table).
Bracket(ni) ==
    LET i == primeIndex(1, ni) IN
    IF prime_size_table[i] = -1 THEN {prime_size_table[i - 1]}
    ELSE IF i = 1 THEN {prime_size_table[i]}
    ELSE {prime_size_table[i - 1], prime_size_table[i]}

\* resize() has just run on a table built with initial size 47 that holds
\* 100 items.
ShrunkTo100 ==
    /\ lastOp.op = "resize"
    /\ lastOp.arg.initialSize = prime_size_table[5]
    /\ lastOp.arg.ni = 100

C26_KeepsBracketingSize ==
    (lastOp.op = "resize" /\ lastOp.arg.size \in Bracket(lastOp.arg.ni))
        => lastOp.sv = lastOp.arg.size

\* C26: when the current size is one of the primes that bracket the number
\* of items, and the upper one of them is not below the initial size,
\* resize() keeps the current size, and resize(new_size) with the current
\* size changes nothing (no rehash, numResizes unchanged); when the upper
\* prime is below the initial size, the initial size is selected.
C26_KeepsBracketingSizeAboveInitial ==
    lastOp.op = "resize" =>
        LET i == primeIndex(1, lastOp.arg.ni)
            upper == IF prime_size_table[i] = -1 THEN prime_size_table[i - 1]
                     ELSE prime_size_table[i]
        IN
        /\ (lastOp.arg.size \in Bracket(lastOp.arg.ni)
                /\ upper >= lastOp.arg.initialSize)
               => /\ lastOp.sv = lastOp.arg.size
                  /\ resize(HT, size).h = HT
        /\ (prime_size_table[i] # -1 /\ upper < lastOp.arg.initialSize)
               => lastOp.sv = lastOp.arg.initialSize

\* The size was kept although the other bracketing prime is nearer to the
\* number of items.
C26_Witness ==
    /\ lastOp.op = "resize"
    /\ lastOp.arg.size \in Bracket(lastOp.arg.ni)
    /\ lastOp.sv = lastOp.arg.size
    /\ Cardinality(Bracket(lastOp.arg.ni)) = 2
    /\ \E a, b \in Bracket(lastOp.arg.ni) :
           a < b /\ nearest(lastOp.arg.ni, a, b) # lastOp.arg.size

\* The step is a call of insertFromWarmup on an active table.
WarmupStep ==
    /\ activeState
    /\ lastOp'.op = "insertFromWarmup"
    /\ nOps' = nOps + 1

\* The entry insertFromWarmup finds for the item before the call (0: none):
\* the committed entry of the key for a committed item, the pending one for
\* a prepare.
WarmupFound ==
    LET f == findInner(HT, lastOp'.key) IN
    IF lastOp'.arg.itm.committed \in {Pending, PreparedMaybeVisible}
    THEN f.pendingSV ELSE f.committedSV

\* CAS of that entry
WarmupFoundCas ==
    values[getBucketForHash(HT, Hash(lastOp'.key))][WarmupFound].cas

\* C22 as stated: insertFromWarmup returns InvalidCas exactly when it finds
\* an entry with a non-zero CAS that differs from the item's, and NotFound in
\* every other case, whatever eject and keyMetaDataOnly are.
C22_InvalidCasOnlyOnMismatch ==
    [][WarmupStep =>
          lastOp'.status =
              IF WarmupFound # 0 /\ WarmupFoundCas # 0
                 /\ WarmupFoundCas # lastOp'.arg.itm.cas
              THEN "InvalidCas" ELSE "NotFound"]_vars

\* C22: insertFromWarmup returns InvalidCas exactly when it finds an entry
\* for the item's key and commit phase and either keyMetaDataOnly is set or
\* the entry's CAS is non-zero and differs from the item's; in every other
\* case (key absent, CAS equal, CAS of the entry zero) it returns NotFound,
\* whatever eject is. A call that returns InvalidCas leaves the table as it
\* was.
C22_InvalidCasOnMismatchOrMetaOnly ==
    [][WarmupStep =>
          /\ lastOp'.status =
                 IF WarmupFound # 0
                    /\ \/ lastOp'.arg.keyMetaDataOnly
                       \/ WarmupFoundCas # 0
                          /\ WarmupFoundCas # lastOp'.arg.itm.cas
                 THEN "InvalidCas" ELSE "NotFound"
          /\ lastOp'.status = "InvalidCas" => UNCHANGED htVars]_vars

\* insertFromWarmup was called with keyMetaDataOnly for a key whose entry
\* has the item's CAS, and returned InvalidCas.
C22_Witness ==
    /\ lastOp.op = "insertFromWarmup"
    /\ lastOp.status = "InvalidCas"
    /\ lastOp.arg.keyMetaDataOnly
    /\ \E e \in Entries(HT) :
           /\ values[e[1]][e[2]].key = lastOp.key
           /\ values[e[1]][e[2]].cas = lastOp.arg.itm.cas
           /\ isPending(values[e[1]][e[2]]) = itmIsPending(lastOp.arg.itm)

\* The step is a call of set on an active table.
SetStep ==
    /\ activeState
    /\ lastOp'.op = "set"
    /\ nOps' = nOps + 1

\* The entry findForWrite returns for the key of the set before the call
\* (defined when it returns one).
SetFound == Returned(lastOp'.key, findForWrite(HT, lastOp'.key, TRUE).storedValue)

\* set replaces an entry in place: it finds a committed entry and its item is
\* not a prepare.
SetInPlace ==
    /\ findForWrite(HT, lastOp'.key, TRUE).storedValue # 0
    /\ ~isPending(SetFound)
    /\ itmIsCommitted(lastOp'.arg)

\* C23: set returns WasDirty exactly when it replaces in place a committed
\* entry that was dirty before the call; it returns WasClean when that entry
\* was clean, when it links a new entry for an absent key and when it links a
\* new prepare beside a committed entry. An in-place replacement links
\* nothing, the other two link one entry.
C23_SetReportsPriorDirty ==
    [][SetStep =>
          LET i == findForWrite(HT, lastOp'.key, TRUE).storedValue IN
          /\ lastOp'.status = "WasDirty" <=> (SetInPlace /\ SetFound.dirty)
          /\ (SetInPlace /\ ~SetFound.dirty)
                 => /\ lastOp'.status = "WasClean"
                    /\ NumLinked(HT') = NumLinked(HT)
          /\ SetInPlace => NumLinked(HT') = NumLinked(HT)
          /\ i = 0
                 => /\ lastOp'.status = "WasClean"
                    /\ NumLinked(HT') = NumLinked(HT) + 1
          /\ (i # 0 /\ ~isPending(SetFound) /\ itmIsPending(lastOp'.arg))
                 => /\ lastOp'.status = "WasClean"
                    /\ NumLinked(HT') = NumLinked(HT) + 1]_vars

\* set has replaced in place the dirty committed entry of its key, which is
\* the only entry of the table, and returned WasDirty.
C23_Witness ==
    /\ lastOp.op = "set" /\ lastOp.status = "WasDirty"
    /\ itmIsCommitted(lastOp.arg)
    /\ lastOp.sv # 0
    /\ NumLinked(HT) = 1
    /\ Returned(lastOp.key, lastOp.sv).value = lastOp.arg.value

\* The step is a call of op on an active table, for the entry at place
\* lastOp'.arg of chain lastOp'.arg[1].
EntryStep(op) ==
    /\ activeState
    /\ lastOp'.op = op
    /\ nOps' = nOps + 1

\* Number of entries of chain with key k and committed state cs
KeyStateCount(chain, k, cs) ==
    Cardinality({i \in 1..Len(chain) :
                     chain[i].key = k /\ chain[i].committed = cs})

\* The chains c1 and c2 hold the same multiset of (key, committed_state).
SameKeyStates(c1, c2) ==
    \A k \in Keys, cs \in CommittedState :
        KeyStateCount(c1, k, cs) = KeyStateCount(c2, k, cs)

\* C24: unlocked_replaceByCopy(lock, src), for an entry src linked in the
\* table, releases src itself and no other entry: the entry released is src,
\* the other entries of the chain stay linked as they were, and the chain
\* holds the same multiset of (key, committed_state) as before, also when a
\* committed and a pending entry of src's key are in the chain, in either
\* order.
C24_ReplaceByCopyReleasesSrc ==
    [][EntryStep("replaceByCopy") =>
          LET b == lastOp'.arg[1]
              i == lastOp'.arg[2]
          IN  /\ lastOp'.status = "ok"
              /\ lastOp'.sv = i
              /\ values'[b] = <<values[b][i]>> \o RemoveAt(values[b], i)
              /\ SameKeyStates(values'[b], values[b])]_vars

\* Every chain other than chain b is as it was.
OtherChainsKept(b) ==
    /\ DOMAIN values' = DOMAIN values
    /\ \A c \in DOMAIN values : c # b => values'[c] = values[c]

\* The statistics have lost the contribution of the entry v, and nothing
\* else: one entry less is counted, as an item or as a temp item, and the
\* memory counters are lower by the size of v.
StatsLost(v) ==
    /\ valueStats' = epilogueStatistics(valueStats, prologue(v), NullProperties)
    /\ valueStats'.numItems + valueStats'.numTempItems
           = valueStats.numItems + valueStats.numTempItems - 1
    /\ valueStats'.memSize = valueStats.memSize - svSize(v)
    /\ valueStats'.numItems =
           valueStats.numItems - (IF isTempItem(v) THEN 0 ELSE 1)

\* C25: cleanupIfTemporaryItem(lock, v) removes exactly the entry v when v is
\* a temp-deleted or temp-non-existent item and removes nothing when v is
\* not temporary; every other entry of the chain, a pending entry with v's
\* key included, stays linked, and the statistics change only by v's own
\* contribution.
C25_CleanupRemovesOnlyV ==
    [][EntryStep("cleanupIfTemporaryItem") =>
          LET b == lastOp'.arg[1]
              i == lastOp'.arg[2]
              v == values[b][i]
          IN  /\ OtherChainsKept(b)
              /\ IF v.temp \in {TempDeleted, TempNonExistent}
                 THEN /\ values'[b] = RemoveAt(values[b], i)
                      /\ StatsLost(v)
                 ELSE UNCHANGED htVars]_vars

\* C27: a pending entry is never changed in place. On every table, for every
\* entry in state Pending or PreparedMaybeVisible, unlocked_updateStoredValue
\* (with any item) and unlocked_softDelete (with either onlyMarkDeleted)
\* return IsPendingSyncWrite with a null entry pointer and leave the entry,
\* its chain and every counter as they are; set and softDelete calls that
\* reach such an entry do so.
C27_PendingNotChangedInPlace ==
    /\ \A e \in Entries(HT) :
           (activeState /\ isPending(values[e[1]][e[2]])) =>
               /\ \A itm \in SetItems, inc \in {0, 1} :
                      unlocked_updateStoredValue(HT, e[1], e[2], itm, inc)
                          = Result(HT, "IsPendingSyncWrite", 0)
               /\ \A onlyMarkDeleted \in BOOLEAN :
                      unlocked_softDelete(HT, e[1], e[2], onlyMarkDeleted)
                          = Result(HT, "IsPendingSyncWrite", 0)
    /\ lastOp.status = "IsPendingSyncWrite" =>
           /\ lastOp.op \in {"set", "softDelete"}
           /\ lastOp.sv = 0

\* softDelete was called on a pending entry, which is still linked, not
\* deleted.
C27_Witness ==
    /\ lastOp.op = "softDelete"
    /\ lastOp.status = "IsPendingSyncWrite"
    /\ isPending(values[lastOp.arg[1]][lastOp.arg[2]])
    /\ ~values[lastOp.arg[1]][lastOp.arg[2]].deleted

\* C28: unlocked_del with a key or with an entry pointer. If an entry that
\* matches is linked in the bucket, exactly one entry, the first match, is
\* unlinked and the statistics lose that entry's contribution; if none
\* matches, a logic error is raised and chains and statistics are unchanged.
C28_DelUnlinksFirstMatch ==
    [][/\ EntryStep("delKey") =>
              LET k == lastOp'.arg
                  b == getBucketForHash(HT, Hash(k))
                  S == {i \in 1..Len(values[b]) : values[b][i].key = k}
                  first == CHOOSE i \in S : \A j \in S : i <= j
              IN  IF S # {}
                  THEN /\ lastOp'.status = "ok"
                       /\ values'[b] = RemoveAt(values[b], first)
                       /\ OtherChainsKept(b)
                       /\ StatsLost(values[b][first])
                  ELSE /\ lastOp'.status = "logic_error"
                       /\ UNCHANGED htVars
       /\ EntryStep("delPtr") =>
              LET b == lastOp'.arg[1]
                  i == lastOp'.arg[2]
              IN  /\ lastOp'.status = "ok"
                  /\ values'[b] = RemoveAt(values[b], i)
                  /\ OtherChainsKept(b)
                  /\ StatsLost(values[b][i])]_vars

\* unlocked_del(key) has unlinked one entry of the key and left the key's
\* other entry linked.
C28_Witness ==
    /\ lastOp.op = "delKey" /\ lastOp.status = "ok"
    /\ \E e \in Entries(HT) : values[e[1]][e[2]].key = lastOp.key
    /\ NumLinked(HT) = 1

\* The step is a call of unlocked_ejectItem.
EjectStep ==
    /\ lastOp'.op = "ejectItem"
    /\ nOps' = nOps + 1

\* C29: unlocked_ejectItem on an entry that is not eligible for eviction
\* under the policy returns false, adds one to numFailedEjects and changes
\* nothing else; numEjects grows by one exactly on the calls that return
\* true, and numFailedEjects only on those that return false.
C29_FailedEjectChangesNothing ==
    [][EjectStep =>
          LET b == lastOp'.arg.e[1]
              i == lastOp'.arg.e[2]
              eligible == eligibleForEviction(values[b][i], lastOp'.arg.policy)
          IN  /\ lastOp'.status = IF eligible THEN "true" ELSE "false"
              /\ numEjects' = numEjects + (IF lastOp'.status = "true" THEN 1 ELSE 0)
              /\ stats'.numFailedEjects =
                     stats.numFailedEjects + (IF eligible THEN 0 ELSE 1)
              /\ ~eligible =>
                     /\ values' = values
                     /\ valueStats' = valueStats
                     /\ stats' = [stats EXCEPT !.numFailedEjects = @ + 1]
                     /\ UNCHANGED <<size, activeState, visitors, numResizes,
                                    maxDeletedRevSeqno>>]_vars

\* An eject has failed on a dirty entry, which is still resident.
C29_Witness ==
    /\ lastOp.op = "ejectItem" /\ lastOp.status = "false"
    /\ stats.numFailedEjects = 1
    /\ numEjects = 0
    /\ values[lastOp.arg.e[1]][lastOp.arg.e[2]].dirty
    /\ values[lastOp.arg.e[1]][lastOp.arg.e[2]].resident

\* C30: unlocked_ejectItem with policy Full on an eligible entry unlinks
\* exactly that entry from its chain, lowers numItems by one and leaves
\* maxDeletedRevSeqno at least the entry's revision; no eject lowers
\* maxDeletedRevSeqno.
C30_FullEjectUnlinks ==
    [][EjectStep =>
          LET b == lastOp'.arg.e[1]
              i == lastOp'.arg.e[2]
              v == values[b][i]
          IN  /\ maxDeletedRevSeqno' >= maxDeletedRevSeqno
              /\ (lastOp'.arg.policy = "Full"
                      /\ eligibleForEviction(v, "Full"))
                     => /\ lastOp'.status = "true"
                        /\ values'[b] = RemoveAt(values[b], i)
                        /\ OtherChainsKept(b)
                        /\ valueStats'.numItems = valueStats.numItems - 1
                        /\ maxDeletedRevSeqno' >= v.revSeqno]_vars

\* A full eject has unlinked an entry whose revision is above the largest
\* one seen before: the only other entry keeps its place.
C30_Witness ==
    /\ lastOp.op = "ejectItem" /\ lastOp.status = "true"
    /\ lastOp.arg.policy = "Full"
    /\ numEjects = 1
    /\ maxDeletedRevSeqno = MaxVer
    /\ NumLinked(HT) = 1

\* The step is a call of findForRead on an active table.
ReadStep ==
    /\ activeState
    /\ lastOp'.op = "findForRead"
    /\ nOps' = nOps + 1

\* The entry findForRead returned, as it was before the call (defined when
\* the call returned one).
ReadReturned == Returned(lastOp'.key, lastOp'.sv)

\* The table after the frequency counter of entry i of chain b was updated
\* with the draw inc.
FreqUpdated(b, i, inc) ==
    [values EXCEPT ![b][i] = updateFreqCounter(@, inc)]

\* findForRead hides a deleted committed entry unless wantsDeleted is set,
\* and no call changes a counter of the statistics or the length of a chain.
ReadHidesDeleted ==
    LET f == findInner(HT, lastOp'.key)
        c == f.committedSV
        blocked == f.pendingSV # 0
                     /\ values[f.bucket][f.pendingSV].committed
                            = PreparedMaybeVisible
    IN  /\ lastOp'.status = "ok"
        /\ (~blocked /\ c # 0 /\ values[f.bucket][c].deleted)
               => lastOp'.sv = IF lastOp'.arg.wantsDeleted THEN c ELSE 0
        /\ (~blocked /\ c # 0 /\ ~values[f.bucket][c].deleted)
               => lastOp'.sv = c
        /\ (~blocked /\ c = 0) => lastOp'.sv = 0
        /\ UNCHANGED <<size, activeState, visitors, valueStats, stats,
                       numEjects, numResizes, maxDeletedRevSeqno>>
        /\ \A b \in DOMAIN values :
               /\ Len(values'[b]) = Len(values[b])
               /\ \A i \in DOMAIN values[b] :
                      [values'[b][i] EXCEPT !.freq = 0]
                          = [values[b][i] EXCEPT !.freq = 0]

\* C31 as stated: findForRead updates the frequency counter of the entry it
\* returns exactly when that entry is a non-deleted committed entry, whether
\* or not the caller tracks the reference.
C31_ReadCountsEveryLiveRead ==
    [][ReadStep =>
          /\ ReadHidesDeleted
          /\ values' =
                 IF lastOp'.sv # 0 /\ ~isPending(ReadReturned)
                    /\ ~ReadReturned.deleted
                 THEN FreqUpdated(getBucketForHash(HT, Hash(lastOp'.key)),
                                  lastOp'.sv, lastOp'.arg.inc)
                 ELSE values]_vars

\* C31: findForRead hides a deleted committed entry unless wantsDeleted is
\* set, and it updates the frequency counter of the entry it returns exactly
\* when that entry is a non-deleted committed entry and the caller tracks the
\* reference; when it returns nothing, a deleted entry or a
\* PreparedMaybeVisible entry, or when the reference is not tracked, no
\* frequency counter changes. No call changes a chain's entries otherwise, or
\* a counter of the statistics.
C31_ReadCountsTrackedLiveRead ==
    [][ReadStep =>
          /\ ReadHidesDeleted
          /\ values' =
                 IF lastOp'.sv # 0 /\ ~isPending(ReadReturned)
                    /\ ~ReadReturned.deleted /\ lastOp'.arg.trackReference
                 THEN FreqUpdated(getBucketForHash(HT, Hash(lastOp'.key)),
                                  lastOp'.sv, lastOp'.arg.inc)
                 ELSE values]_vars

\* A tracked read has returned a live committed entry and raised its
\* frequency counter, beside a deleted committed entry of another key whose
\* counter is still zero.
C31_Witness ==
    /\ lastOp.op = "findForRead" /\ lastOp.status = "ok"
    /\ lastOp.arg.trackReference /\ lastOp.arg.inc = 1
    /\ lastOp.sv # 0
    /\ Returned(lastOp.key, lastOp.sv).freq = 1
    /\ ~Returned(lastOp.key, lastOp.sv).deleted
    /\ \E e \in Entries(HT) :
           /\ values[e[1]][e[2]].deleted
           /\ values[e[1]][e[2]].freq = 0

\* The places, in the chain of key k's bucket, of the entries of k that are
\* pending (pend = TRUE) or committed (pend = FALSE).
PlacesOf(k, pend) ==
    LET chain == values[Hash(k) % size] IN
    {i \in 1..Len(chain) : chain[i].key = k /\ isPending(chain[i]) = pend}

\* What findForWrite is to return for key k: the pending entry if there is
\* one; otherwise the committed entry, a deleted one only if wantsDeleted;
\* otherwise nothing.
WriteTarget(k, wantsDeleted) ==
    IF PlacesOf(k, TRUE) # {} THEN CHOOSE i \in PlacesOf(k, TRUE) : TRUE
    ELSE IF PlacesOf(k, FALSE) = {} THEN 0
    ELSE LET c == CHOOSE i \in PlacesOf(k, FALSE) : TRUE
         IN  IF values[Hash(k) % size][c].deleted /\ ~wantsDeleted
             THEN 0 ELSE c

\* C32: on every table where a key has at most one pending and one committed
\* entry, findForWrite returns the pending entry whenever there is one,
\* whatever its deleted flag and wantsDeleted; otherwise the committed entry,
\* a deleted one only when wantsDeleted is set; and nothing when the key has
\* no entry. The call that has just returned did so too.
C32_WritePrefersPending ==
    \A k \in Keys, wantsDeleted \in BOOLEAN :
        (/\ activeState
         /\ Cardinality(PlacesOf(k, TRUE)) <= 1
         /\ Cardinality(PlacesOf(k, FALSE)) <= 1)
            => /\ findForWrite(HT, k, wantsDeleted).status = "ok"
               /\ findForWrite(HT, k, wantsDeleted).storedValue
                      = WriteTarget(k, wantsDeleted)
               /\ (lastOp.op = "findForWrite" /\ lastOp.key = k
                       /\ lastOp.arg = wantsDeleted)
                      => lastOp.sv = WriteTarget(k, wantsDeleted)

\* findForWrite, not asked for deleted entries, has returned the deleted
\* prepare of a key that has a live committed entry as well.
C32_Witness ==
    /\ lastOp.op = "findForWrite" /\ lastOp.status = "ok"
    /\ lastOp.arg = FALSE
    /\ lastOp.sv # 0
    /\ isPending(Returned(lastOp.key, lastOp.sv))
    /\ Returned(lastOp.key, lastOp.sv).deleted
    /\ PlacesOf(lastOp.key, FALSE) # {}

\* The position a call of pauseResumeVisit is to return: past the bucket in
\* which the visitor paused, or the end position if it did not pause.
NextPosition(pausedAt) ==
    IF pausedAt = -1 THEN endPosition(HT)
    ELSE IF pausedAt + NumLocks < size
         THEN Position(size, pausedAt % NumLocks, pausedAt + NumLocks)
    ELSE Position(size, (pausedAt % NumLocks) + 1, size)

\* The bucket at which a call started from position p begins when the size is
\* still p.ht_size: p's bucket, or the first bucket of p's lock when p marks
\* the end of the lock before.
ResumeBucket(p) == IF p.hash_bucket < size THEN p.hash_bucket ELSE p.lock

\* C33: the position protocol of pauseResumeVisit on an active table. A call
\* in which the visitor paused in bucket b of lock l returns (size, l, b + L)
\* when b + L < size and (size, l + 1, size) otherwise; a call in which it
\* did not pause returns endPosition(). A call started from a returned
\* position with the size unchanged begins at that position's bucket (at the
\* first bucket of its lock when the position marks the end of the lock
\* before) and visits no bucket that the scan has visited already. The scan
\* is over with the position (size, L, size): a call started from it is the
\* first call of another scan.
C33_PositionProtocol ==
    [][/\ (pc["visitor"] = "v_ret" /\ pc'["visitor"] = "idle")
              => loc'["visitor"].start_pos
                     = NextPosition(loc["visitor"].pausedAt)
       /\ (pc["visitor"] = "idle" /\ pc'["visitor"] = "idle"
               /\ loc'["visitor"].start_pos # loc["visitor"].start_pos)
              => loc'["visitor"].start_pos = endPosition(HT)
       /\ (pc["visitor"] = "v_chain" /\ pc'["visitor"] = "v_inner")
              => LET v == loc["visitor"] IN
                 /\ v.lock = v.hash_bucket % NumLocks
                 /\ v.hash_bucket < size
                 /\ (v.start_pos.ht_size = size
                         /\ v.start_pos.lock < NumLocks)
                        => /\ v.hash_bucket \notin v.seen
                           /\ loc'["visitor"].first
                                  = IF v.first = -1
                                    THEN ResumeBucket(v.start_pos)
                                    ELSE v.first]_vars

\* A call resumed from the position that marks the end of lock 0 (the visitor
\* paused in the last bucket of lock 0), which began at the first bucket of
\* lock 1, is about to return: the scan has visited every bucket.
C33_Witness ==
    LET v == loc["visitor"] IN
    /\ pc["visitor"] = "v_ret"
    /\ v.calls >= 1
    /\ v.start_pos = Position(size, 1, size)
    /\ v.first = 1
    /\ v.seen = 0..(size - 1)
    /\ v.hash_bucket = size

\* The call of thread t has registered with the VisitorTracker and has not
\* left its function yet.
Registered(t) ==
    CASE t = "visitor" -> pc[t] \in {"v_outer", "v_inner", "v_chain", "v_ret"}
      [] t = "depth" -> pc[t] \in {"d_loop", "d_visit", "d_ret"}

\* The step takes thread t into (entered = TRUE) or out of its registration.
Registers(t, entered) ==
    IF entered
    THEN /\ pc[t] \in {"v_track", "d_track"}
         /\ pc'[t] \in {"v_outer", "d_loop"}
         /\ mutexes[0] = t
    ELSE /\ Registered(t)
         /\ pc'[t] \in {"idle", "aborted"}

\* C34: visitors always equals the number of pauseResumeVisit and visitDepth
\* calls that have registered and not left yet, so it is 0 whenever no visit
\* is running. It grows only by one, in the step in which a call registers,
\* made while the call holds mutex 0; it falls only by one, in the step in
\* which a registered call leaves, by its return (after a pause or at the
\* end) or by an exception of the visitor; and every call that leaves was
\* registered once and lowers it.
C34_VisitorsCountsRegistered ==
    /\ [](visitors = Cardinality({t \in {"visitor", "depth"} : Registered(t)}))
    /\ []((pc["visitor"] \in {"idle", "done", "aborted"}
               /\ pc["depth"] = "idle") => visitors = 0)
    /\ [][/\ visitors' > visitors
               => /\ visitors' = visitors + 1
                  /\ \E t \in {"visitor", "depth"} : Registers(t, TRUE)
          /\ visitors' < visitors
               => /\ visitors' = visitors - 1
                  /\ \E t \in {"visitor", "depth"} : Registers(t, FALSE)
          /\ \A t \in {"visitor", "depth"} :
                 /\ Registers(t, FALSE) => visitors' = visitors - 1
                 /\ (pc[t] \in {"v_track", "d_track"} /\ pc'[t] # pc[t])
                        => visitors' = visitors + 1]_vars

\* A content visit, resumed after a pause, has ended with an exception of its
\* visitor and is no longer counted; the depth visitor has thrown too and its
\* call, which is about to leave, is the one visitor still counted.
C34_Witness ==
    /\ pc["visitor"] = "aborted"
    /\ loc["visitor"].calls >= 1
    /\ pc["depth"] = "d_ret"
    /\ loc["depth"].threw
    /\ visitors = 1
    /\ \A l \in DOMAIN mutexes : mutexes[l] = "free"

\* Entry i of chain b is one getRandomKey may return: a committed, resident,
\* live, non-temporary entry.
Eligible(b, i) ==
    LET v == values[b][i] IN
    ~isTempItem(v) /\ ~v.deleted /\ v.resident /\ ~isPending(v)

\* Bucket b has an entry getRandomKey may return.
HasEligible(b) == \E i \in 1..Len(values[b]) : Eligible(b, i)

\* The n-th slot (from 0) of the probe order that starts at rnd % size
ProbeSlot(rnd, n) == ((rnd % size) + n) % size

\* C35: getRandomKey(rnd), with no resize at work, probes the slots
\* rnd % size, rnd % size + 1, ... with wrap-around, each slot at most once,
\* and stops at the first slot that has a committed, resident, live,
\* non-temporary entry: it returns an item built from the first such entry of
\* that slot's chain. It returns null exactly when no slot has such an entry,
\* after it has probed every slot once.
C35_RandomKeyProbesInOrder ==
    /\ \A rnd \in 0..MaxRnd :
           LET start == rnd % size
               l == getRandomKeyLoop(HT, start, start, <<>>)
               r == getRandomKey(HT, rnd)
               n == Len(l.probed)
           IN  /\ n \in 1..size
               /\ \A j \in 1..n : l.probed[j] = ProbeSlot(rnd, j - 1)
               /\ \A j \in 1..(n - 1) : ~HasEligible(l.probed[j])
               /\ IF \E b \in DOMAIN values : HasEligible(b)
                  THEN /\ HasEligible(l.probed[n])
                       /\ r.status = "item"
                       /\ \E i \in 1..Len(values[l.probed[n]]) :
                              /\ Eligible(l.probed[n], i)
                              /\ \A i2 \in 1..(i - 1) :
                                     ~Eligible(l.probed[n], i2)
                              /\ r.sv = values[l.probed[n]][i].key
                  ELSE n = size /\ r.status = "nullptr" /\ r.sv = 0
               /\ r.h = HT
    /\ lastOp.op = "getRandomKey" =>
           /\ lastOp.status = getRandomKey(HT, lastOp.arg).status
           /\ lastOp.sv = getRandomKey(HT, lastOp.arg).sv
           /\ lastOp.status = "nullptr"
                  <=> ~\E b \in DOMAIN values : HasEligible(b)

\* getRandomKey, started beyond the only bucket that holds an entry, has
\* probed the slots up to the last one, wrapped round and returned the item
\* of that entry.
C35_Witness ==
    /\ lastOp.op = "getRandomKey" /\ lastOp.status = "item"
    /\ NumLinked(HT) = 1
    /\ \E b \in DOMAIN values :
           /\ lastOp.arg % size > b
           /\ Len(values[b]) = 1
           /\ Eligible(b, 1) /\ values[b][1].key = lastOp.sv
           /\ Len(getRandomKeyLoop(HT, lastOp.arg % size, lastOp.arg % size,
                                   <<>>).probed) > size - (lastOp.arg % size)

\* The entry of the table h for the key and the commit phase of the item
\* (0: none)
WarmupEntry(h, itm) ==
    LET f == findInner(h, itm.key) IN
    IF itmIsPending(itm) THEN f.pendingSV ELSE f.committedSV

\* The entry of the table h for the key and the commit phase of the item is
\* dirty.
WarmupEntryDirty(h, itm) ==
    /\ WarmupEntry(h, itm) # 0
    /\ h.values[getBucketForHash(h, Hash(itm.key))][WarmupEntry(h, itm)].dirty

\* C36 as stated: when insertFromWarmup returns, on whatever path, the entry
\* for the item's key and commit phase is marked clean.
C36_WarmupAlwaysClean ==
    [][WarmupStep /\ lastOp'.status \in {"NotFound", "InvalidCas"}
          => ~WarmupEntryDirty(HT', lastOp'.arg.itm)]_vars

\* C36: when insertFromWarmup returns NotFound (new insert, existing entry
\* with equal CAS, existing entry with zero CAS), the entry for the item's
\* key and commit phase, if it is still in the table, is marked clean; when it
\* returns InvalidCas (existing entry with a different non-zero CAS,
\* keyMetaDataOnly on an existing entry), the entry is as dirty as it was.
C36_WarmupCleanUnlessInvalidCas ==
    [][WarmupStep =>
          /\ lastOp'.status = "NotFound"
                 => ~WarmupEntryDirty(HT', lastOp'.arg.itm)
          /\ lastOp'.status = "InvalidCas"
                 => /\ WarmupEntry(HT, lastOp'.arg.itm) # 0
                    /\ WarmupEntryDirty(HT', lastOp'.arg.itm)
                           = WarmupEntryDirty(HT, lastOp'.arg.itm)]_vars

\* insertFromWarmup of a committed item, second call of the behaviour, found
\* the entry that a set of a deletion with the item's CAS had left dirty (no
\* warmup item is a committed deletion) and returned NotFound: the entry is
\* in the table and clean.
C36_Witness ==
    /\ nOps = 2
    /\ lastOp.op = "insertFromWarmup"
    /\ lastOp.status = "NotFound"
    /\ itmIsCommitted(lastOp.arg.itm)
    /\ WarmupEntry(HT, lastOp.arg.itm) # 0
    /\ LET v == values[getBucketForHash(HT, Hash(lastOp.key))]
                      [WarmupEntry(HT, lastOp.arg.itm)]
       IN  v.deleted /\ ~v.dirty /\ v.cas = lastOp.arg.itm.cas

\* The writer holds the handle getLockedBucket returned for its key
WriterHoldsHandle == pc["writer"] = "w_locked"

\* The places of the entries with key k
WriterPlaces(k) ==
    {e \in Entries(HT) : values[e[1]][e[2]].key = k}

C38_NeverPausingVisitsOnce ==
    (loc["visitor"].scanning /\ ~loc["visitor"].everPaused) =>
        \A k \in Keys : loc["visitor"].visited[k] <= 1

\* C39 as stated: getRandomKey running beside resize never probes a slot
\* index greater than or equal to the length of the bucket vector.
C39_ProbesWithinVector ==
    /\ ~loc["sampler"].outOfRange
    /\ pc["sampler"] = "k_scan" => loc["sampler"].slot \in DOMAIN values

\* An empty table of sz buckets with no visitor in flight
TableOfSize(sz) ==
    [NewHashTable EXCEPT !.size = sz, !.values = EmptyTable(sz)]

\* C40: the size selection of resize() is a fixed point. When resize() is
\* called again with the number of items unchanged and no visitor in flight,
\* it selects the size the table already has, and resize(new_size) returns
\* without changing size or numResizes, for every number of items, starting
\* size and initial size.
C40_SecondResizeChangesNothing ==
    [][(lastOp.op = "resize" /\ lastOp'.op = "resize") =>
          /\ lastOp'.arg = [lastOp.arg EXCEPT !.size = lastOp.sv]
          /\ lastOp'.sv = lastOp.sv
          /\ lastOp.sv <= prime_size_table[MaxPrime] =>
                 LET h == TableOfSize(lastOp.sv)
                     r == resize(h, lastOp'.sv)
                 IN  /\ r.h.size = h.size
                     /\ r.h.numResizes = h.numResizes
                     /\ r.h = h]_vars

\* resize() has been called twice in a row for a number of items in the
\* middle of the prime table, and the table has a size that is neither the
\* one it started with nor its initial size.
C40_Witness ==
    /\ lastOp.op = "resize"
    /\ nOps = 2
    /\ lastOp.arg.size = lastOp.sv
    /\ lastOp.sv # lastOp.arg.initialSize
    /\ lastOp.sv > lastOp.arg.initialSize
    /\ lastOp.arg.ni > prime_size_table[1]
    /\ lastOp.arg.ni < prime_size_table[MaxPrime]
    /\ lastOp.sv = nearest(lastOp.arg.ni,
                           prime_size_table[primeIndex(1, lastOp.arg.ni) - 1],
                           prime_size_table[primeIndex(1, lastOp.arg.ni)])

====
